---- MODULE Spec2Model ----
(***************************************************************************)
(* A model of libcaf's repository facade (libcaf/repository.py): the       *)
(* structural diff engine with move detection, the diff applier used by    *)
(* checkout, and the reference handling around them.                       *)
(*                                                                         *)
(* Hashes are content addresses.  The plumbing layer that computes them is *)
(* outside the modelled sources, so a hash is modelled as the pair of the  *)
(* object's kind and its content: two objects have the same hash exactly   *)
(* when they have the same kind and content.                               *)
(***************************************************************************)
EXTENDS Naturals, Sequences, FiniteSets, TLC

(***************************************************************************)
(* Bounds of the model.                                                    *)
(***************************************************************************)
MaxNodes == 3        \* records per tree, checkout between two commits
DiffMaxNodes == 4    \* records per tree, diff of two trees
RepoMaxNodes == 1    \* records per tree, repository operations
MaxCommits == 2      \* commits in the object store
NumBlobs == 2        \* distinct blob contents
RepoNumBlobs == 1    \* distinct blob contents the facade run writes
RecursionLimit == 6  \* depth at which the interpreter ends a recursion

NameSeq == <<"a", "b">>
Names == {NameSeq[i] : i \in 1..Len(NameSeq)}
Blobs == 1..NumBlobs

(***************************************************************************)
(* Trees.  Tree.records maps a name to a TreeRecord(type, hash, name).     *)
(***************************************************************************)
BLOB == "BLOB"
TREE == "TREE"

EmptyTree == [n \in {} |-> 0]

BlobHash(c) == <<BLOB, c>>
TreeHash(t) == <<TREE, t>>

TreeRecord(type, hash, name) == [type |-> type, hash |-> hash, name |-> name]

RECURSIVE TreeSize(_)
TreeSize(t) ==
    IF DOMAIN t = {} THEN 0
    ELSE LET n == CHOOSE m \in DOMAIN t : TRUE
             rest == [m \in DOMAIN t \ {n} |-> t[m]]
         IN 1 + (IF t[n].type = TREE THEN TreeSize(t[n].hash[2]) ELSE 0)
              + TreeSize(rest)

\* The trees over the given names whose records are drawn from protos, a set
\* of <<type, hash, size>>, each with its number of records, n at most.
RECURSIVE SizedTrees(_, _, _)
SizedTrees(names, protos, n) ==
    IF names = {} THEN {<<EmptyTree, 0>>}
    ELSE LET m == CHOOSE x \in names : TRUE
             rest == SizedTrees(names \ {m}, protos, n)
             fits == {rp \in rest \X protos : rp[1][2] + rp[2][3] <= n}
         IN rest \cup
            {<<[k \in DOMAIN rp[1][1] \cup {m} |->
                   IF k = m THEN TreeRecord(rp[2][1], rp[2][2], m) ELSE rp[1][1][k]],
               rp[1][2] + rp[2][3]>> : rp \in fits}

\* The trees of at most n records over the given names and blob contents,
\* each with its number of records.
RECURSIVE SizedTreesUpTo(_, _, _)
SizedTreesUpTo(names, blobs, n) ==
    IF n = 0 THEN {<<EmptyTree, 0>>}
    ELSE LET sub == SizedTreesUpTo(names, blobs, n - 1)
             protos == {<<BLOB, BlobHash(c), 1>> : c \in blobs}
                         \cup {<<TREE, TreeHash(s[1]), 1 + s[2]>> : s \in sub}
         IN SizedTrees(names, protos, n)

\* The trees of at most n records over the given names and blob contents.
TreesUpTo(names, blobs, n) == {s[1] : s \in SizedTreesUpTo(names, blobs, n)}

Trees == TreesUpTo(Names, Blobs, MaxNodes)
DiffTrees == TreesUpTo(Names, Blobs, DiffMaxNodes)
WorkTrees == TreesUpTo(Names, 1..RepoNumBlobs, RepoMaxNodes)

\* The names of a tree in the order its records are iterated.
NameOrder == NameSeq \o <<"c">>
SortedNames(t) == SelectSeq(NameOrder, LAMBDA n : n \in DOMAIN t)

(***************************************************************************)
(* Diff nodes.  The forest is a heap of nodes addressed by their index;    *)
(* node 1 is top_level_diff.  A node holds its record, its parent's index  *)
(* (0 for None), the indices of its children in list order, and for a      *)
(* MovedTo/MovedFrom node the index of its counterpart (0 for None).       *)
(***************************************************************************)
Top == "Top"
Added == "Added"
Removed == "Removed"
Modified == "Modified"
MovedTo == "MovedTo"
MovedFrom == "MovedFrom"

NoHash == <<"", 0>>
TopId == 1

DiffNode(kind, record, parent, link) ==
    [kind |-> kind, record |-> record, parent |-> parent, children |-> <<>>, link |-> link]

top_level_diff == DiffNode(Top, TreeRecord(TREE, NoHash, ""), 0, 0)

DictPut(d, k, v) == [h \in DOMAIN d \cup {k} |-> IF h = k THEN v ELSE d[h]]
DictDel(d, k) == [h \in DOMAIN d \ {k} |-> d[h]]

AppendChild(nodes, p, c) ==
    [nodes EXCEPT ![p].children = Append(@, c)]

\* A collapse that leaves the children list of the parent as it was.
ReplaceChildrenKept(nodes, p, h, new) == nodes

\* [_ if _.record.hash != h else new for _ in nodes[p].children]
ReplaceChildren(nodes, p, h, new) ==
    [nodes EXCEPT ![p].children =
        [i \in 1..Len(@) |-> IF nodes[@[i]].record.hash # h THEN @[i] ELSE new]]

\* self._load_tree(record.hash, tree_hashes): the tree a TREE record names.
LoadTree(record) == record.hash[2]

\* One iteration of "for name, record1 in records1.items()".
DiffStepA(st, records2, parent_diff, record1) ==
    LET name == record1.name
        n == Len(st.nodes)
    IN IF name \notin DOMAIN records2
       THEN IF record1.hash \in DOMAIN st.potentially_added
            THEN LET added_diff == st.potentially_added[record1.hash]
                     local_diff == n + 1
                     moved_from_diff == n + 2
                     nodes1 == st.nodes \o
                        << DiffNode(MovedTo, record1, parent_diff, moved_from_diff),
                           DiffNode(MovedFrom, st.nodes[added_diff].record,
                                    st.nodes[added_diff].parent, local_diff) >>
                     nodes2 == ReplaceChildren(nodes1, st.nodes[added_diff].parent,
                                               record1.hash, moved_from_diff)
                 IN [st EXCEPT
                        !.potentially_added = DictDel(@, record1.hash),
                        !.nodes = AppendChild(nodes2, parent_diff, local_diff)]
            ELSE LET local_diff == n + 1
                     nodes1 == Append(st.nodes, DiffNode(Removed, record1, parent_diff, 0))
                 IN [st EXCEPT
                        !.potentially_removed = DictPut(@, record1.hash, local_diff),
                        !.stack = IF record1.type = TREE
                                  THEN Append(@, <<LoadTree(record1), EmptyTree, local_diff>>)
                                  ELSE @,
                        !.nodes = AppendChild(nodes1, parent_diff, local_diff)]
       ELSE LET record2 == records2[name]
            IN IF record1.hash = record2.hash
               THEN st
               ELSE IF record1.type = TREE /\ record2.type = TREE
                    THEN LET subtree_diff == n + 1
                             nodes1 == Append(st.nodes,
                                              DiffNode(Modified, record1, parent_diff, 0))
                         IN [st EXCEPT
                                !.stack = Append(@, <<LoadTree(record1), LoadTree(record2),
                                                      subtree_diff>>),
                                !.nodes = AppendChild(nodes1, parent_diff, subtree_diff)]
                    ELSE LET modified_diff == n + 1
                             nodes1 == Append(st.nodes,
                                              DiffNode(Modified, record1, parent_diff, 0))
                         IN [st EXCEPT
                                !.nodes = AppendChild(nodes1, parent_diff, modified_diff)]

\* One iteration of "for name, record2 in records2.items()".
DiffStepB(st, records1, parent_diff, record2) ==
    LET name == record2.name
        n == Len(st.nodes)
    IN IF name \in DOMAIN records1
       THEN st
       ELSE IF record2.hash \in DOMAIN st.potentially_removed
            THEN LET removed_diff == st.potentially_removed[record2.hash]
                     local_diff == n + 1
                     moved_to_diff == n + 2
                     nodes1 == st.nodes \o
                        << DiffNode(MovedFrom, record2, parent_diff, moved_to_diff),
                           DiffNode(MovedTo, st.nodes[removed_diff].record,
                                    st.nodes[removed_diff].parent, local_diff) >>
                     nodes2 == ReplaceChildren(nodes1, st.nodes[removed_diff].parent,
                                               record2.hash, moved_to_diff)
                 IN [st EXCEPT
                        !.potentially_removed = DictDel(@, record2.hash),
                        !.nodes = AppendChild(nodes2, parent_diff, local_diff)]
            ELSE LET local_diff == n + 1
                     nodes1 == Append(st.nodes, DiffNode(Added, record2, parent_diff, 0))
                 IN [st EXCEPT
                        !.potentially_added = DictPut(@, record2.hash, local_diff),
                        !.stack = IF record2.type = TREE
                                  THEN Append(@, <<EmptyTree, LoadTree(record2), local_diff>>)
                                  ELSE @,
                        !.nodes = AppendChild(nodes1, parent_diff, local_diff)]

RECURSIVE DiffLoopA(_, _, _, _, _)
DiffLoopA(st, records1, records2, parent_diff, names) ==
    IF names = <<>> THEN st
    ELSE DiffLoopA(DiffStepA(st, records2, parent_diff, records1[Head(names)]),
                   records1, records2, parent_diff, Tail(names))

RECURSIVE DiffLoopB(_, _, _, _, _)
DiffLoopB(st, records1, records2, parent_diff, names) ==
    IF names = <<>> THEN st
    ELSE DiffLoopB(DiffStepB(st, records1, parent_diff, records2[Head(names)]),
                   records1, records2, parent_diff, Tail(names))

\* One iteration of "while stack": a level of the lockstep walk.
DiffLevel(st) ==
    LET top == st.stack[Len(st.stack)]
        records1 == top[1]
        records2 == top[2]
        parent_diff == top[3]
        popped == [st EXCEPT !.stack = SubSeq(@, 1, Len(@) - 1), !.levels = @ + 1]
        afterA == DiffLoopA(popped, records1, records2, parent_diff, SortedNames(records1))
    IN DiffLoopB(afterA, records1, records2, parent_diff, SortedNames(records2))

RECURSIVE DiffWalk(_)
DiffWalk(st) == IF st.stack = <<>> THEN st ELSE DiffWalk(DiffLevel(st))

DiffStart(tree1, tree2) ==
    [nodes |-> <<top_level_diff>>,
     stack |-> << <<tree1, tree2, TopId>> >>,
     potentially_added |-> EmptyTree,
     potentially_removed |-> EmptyTree,
     levels |-> 0]

\* The walk without the comparison of the two root hashes.
DiffRunAlwaysWalks(tree1, tree2) == DiffWalk(DiffStart(tree1, tree2))

\* Repository.diff on two resolved root trees: the final state of the walk.
\* nodes is the heap of the forest, whose roots are top_level_diff.children;
\* levels counts the iterations of "while stack".
DiffRun(tree1, tree2) ==
    IF TreeHash(tree1) = TreeHash(tree2)
    THEN [DiffStart(tree1, tree2) EXCEPT !.stack = <<>>]
    ELSE DiffWalk(DiffStart(tree1, tree2))

Diff(tree1, tree2) == DiffRun(tree1, tree2).nodes

Roots(forest) == forest[TopId].children


(***************************************************************************)
(* Reading a forest: the traversal and the path computation of             *)
(* Repository._apply_diffs.                                                *)
(***************************************************************************)
\* relpath_for(node): the names met walking the parent references, the
\* top-level node (the one without parent) excluded, as a sequence of parts.
RECURSIVE relpath_for(_, _)
relpath_for(forest, node) ==
    IF node = 0 \/ forest[node].parent = 0 THEN <<>>
    ELSE LET up == relpath_for(forest, forest[node].parent)
         IN IF forest[node].record.name # ""
            THEN Append(up, forest[node].record.name)
            ELSE up

\* "stack = list(diffs); while stack: node = stack.pop(); all_nodes.append(node);
\*  stack.extend(node.children)"
RECURSIVE FlattenLoop(_, _, _)
FlattenLoop(forest, stack, all_nodes) ==
    IF stack = <<>> THEN all_nodes
    ELSE LET node == stack[Len(stack)]
         IN FlattenLoop(forest,
                        SubSeq(stack, 1, Len(stack) - 1) \o forest[node].children,
                        Append(all_nodes, node))

Flatten(forest) == FlattenLoop(forest, Roots(forest), <<>>)

OfKind(forest, all_nodes, kind) ==
    SelectSeq(all_nodes, LAMBDA n : forest[n].kind = kind)

Depth(forest, node) == Len(relpath_for(forest, node))

\* sorted(nodes, key=depth): stable, ascending.
RECURSIVE SortAsc(_, _, _, _)
SortAsc(forest, nodes, d, maxd) ==
    IF d > maxd THEN <<>>
    ELSE SelectSeq(nodes, LAMBDA n : Depth(forest, n) = d)
            \o SortAsc(forest, nodes, d + 1, maxd)

\* sorted(nodes, key=depth, reverse=True): stable, descending.
RECURSIVE SortDesc(_, _, _)
SortDesc(forest, nodes, d) ==
    SelectSeq(nodes, LAMBDA n : Depth(forest, n) = d)
        \o (IF d = 0 THEN <<>> ELSE SortDesc(forest, nodes, d - 1))

MaxDepthOf(forest) == Len(forest)

(***************************************************************************)
(* The working directory: a directory maps a name to an entry, a file with *)
(* its content or a directory with its entries.  The metadata directory is *)
(* kept apart (the refs and the object store below).                       *)
(***************************************************************************)
REPO_DIR == ".caf"

File(c) == [kind |-> "file", data |-> c]
Dir(d) == [kind |-> "dir", data |-> d]
NoEntry == [kind |-> "none", data |-> 0]
EmptyDir == EmptyTree

RECURSIVE FsLookup(_, _)
FsLookup(fs, path) ==
    IF path = <<>> THEN Dir(fs)
    ELSE IF Head(path) \notin DOMAIN fs THEN NoEntry
    ELSE LET e == fs[Head(path)]
         IN IF Len(path) = 1 THEN e
            ELSE IF e.kind = "dir" THEN FsLookup(e.data, Tail(path))
            ELSE NoEntry

FsExists(fs, path) == FsLookup(fs, path).kind # "none"
FsIsDir(fs, path) == FsLookup(fs, path).kind = "dir"
FsIsFile(fs, path) == FsLookup(fs, path).kind = "file"

Parent(path) == SubSeq(path, 1, Len(path) - 1)
Basename(path) == path[Len(path)]
IsPrefix(p, q) == Len(p) <= Len(q) /\ SubSeq(q, 1, Len(p)) = p

\* Set the entry at path; the parent of path is an existing directory.
RECURSIVE FsPut(_, _, _)
FsPut(fs, path, entry) ==
    LET n == Head(path)
    IN IF Len(path) = 1
       THEN [m \in DOMAIN fs \cup {n} |-> IF m = n THEN entry ELSE fs[m]]
       ELSE [fs EXCEPT ![n] = Dir(FsPut(@.data, Tail(path), entry))]

\* Drop the entry at path, which exists.
RECURSIVE FsDel(_, _)
FsDel(fs, path) ==
    LET n == Head(path)
    IN IF Len(path) = 1
       THEN [m \in DOMAIN fs \ {n} |-> fs[m]]
       ELSE [fs EXCEPT ![n] = Dir(FsDel(@.data, Tail(path)))]

\* A component of path above its last is a file: the calls below then fail
\* with NotADirectoryError, and with FileNotFoundError when it is missing.
FileOnWay(fs, path) == \E k \in 1..(Len(path) - 1) : FsIsFile(fs, SubSeq(path, 1, k))

FsOk(fs, events) == [ok |-> TRUE, fs |-> fs, events |-> events, error |-> ""]
FsFail(fs, events, error) == [ok |-> FALSE, fs |-> fs, events |-> events, error |-> error]

\* Path.mkdir(parents=True, exist_ok=True): the missing directories of path are
\* created, outermost first; a file at the path is a FileExistsError, a file
\* on the way a NotADirectoryError.
RECURSIVE MkdirParents(_, _, _, _)
MkdirParents(fs, path, k, events) ==
    IF k > Len(path) THEN FsOk(fs, events)
    ELSE LET prefix == SubSeq(path, 1, k)
             e == FsLookup(fs, prefix)
         IN IF e.kind = "dir" THEN MkdirParents(fs, path, k + 1, events)
            ELSE IF e.kind = "file"
            THEN FsFail(fs, events, IF k = Len(path) THEN "FileExistsError"
                                    ELSE "NotADirectoryError")
            ELSE MkdirParents(FsPut(fs, prefix, Dir(EmptyDir)), path, k + 1,
                              Append(events, <<"mkdir", prefix>>))

Mkdir(fs, path) == MkdirParents(fs, path, 1, <<>>)

\* Path.write_bytes(data): the parent is an existing directory, the path is
\* not a directory.
WriteBytes(fs, path, data) ==
    IF FileOnWay(fs, path) THEN FsFail(fs, <<>>, "NotADirectoryError")
    ELSE IF ~FsIsDir(fs, Parent(path)) THEN FsFail(fs, <<>>, "FileNotFoundError")
    ELSE IF FsIsDir(fs, path) THEN FsFail(fs, <<>>, "IsADirectoryError")
    ELSE FsOk(FsPut(fs, path, File(data)), << <<"write", path>> >>)

\* shutil.rmtree(path) for a directory, path.unlink() for a file.
RemovePath(fs, path) ==
    IF FsIsDir(fs, path) THEN FsOk(FsDel(fs, path), << <<"rmtree", path>> >>)
    ELSE FsOk(FsDel(fs, path), << <<"unlink", path>> >>)

\* shutil.move(src, dst) for an existing src: into dst when dst is a directory,
\* else a rename onto dst, which may replace a file by a file.
ShutilMove(fs, src, dst) ==
    LET e == FsLookup(fs, src)
        real_dst == IF FsIsDir(fs, dst) THEN Append(dst, Basename(src)) ELSE dst
    IN IF FsIsDir(fs, dst) /\ FsExists(fs, real_dst)
       THEN FsFail(fs, <<>>, "Error")
       ELSE IF IsPrefix(src, real_dst) /\ src # real_dst
       THEN FsFail(fs, <<>>, "Error")
       ELSE IF src = real_dst
       THEN FsOk(fs, << <<"rename", dst, src>> >>)
       ELSE IF FsIsFile(fs, real_dst) /\ e.kind = "dir"
       THEN FsFail(fs, <<>>, "Error")
       ELSE IF ~FsIsDir(fs, Parent(real_dst))
       THEN FsFail(fs, <<>>, "Error")
       ELSE FsOk(FsPut(FsDel(fs, src), real_dst, e), << <<"rename", dst, src>> >>)

\* hash_file(path): the hash of a file's content.
hash_file(c) == BlobHash(c)

\* read_object_bytes(hash): the content of the blob stored under hash.
read_object_bytes(hash) == hash[2]

\* build_fsTree(path, tree_hashes, repo_dir_name): the tree of a directory,
\* built bottom-up, the metadata directory skipped by name at every level.
RECURSIVE build_fsTree(_)
build_fsTree(fs) ==
    [n \in DOMAIN fs \ {REPO_DIR} |->
        IF fs[n].kind = "dir"
        THEN TreeRecord(TREE, TreeHash(build_fsTree(fs[n].data)), n)
        ELSE TreeRecord(BLOB, hash_file(fs[n].data), n)]

\* The directory that holds exactly the records of a tree.
RECURSIVE Materialize(_)
Materialize(t) ==
    [n \in DOMAIN t |->
        IF t[n].type = TREE THEN Dir(Materialize(LoadTree(t[n])))
        ELSE File(read_object_bytes(t[n].hash))]


(***************************************************************************)
(* Repository._apply_diffs: the three buckets and the steps of each.       *)
(***************************************************************************)
NoRecord == TreeRecord("", NoHash, "")

\* record_at_path(root, rel_path, tree_cache): the record the target tree
\* holds at a path, NoRecord where the code raises.
RECURSIVE record_at_path(_, _)
record_at_path(root, parts) ==
    IF parts = <<>> THEN NoRecord
    ELSE IF Head(parts) \notin DOMAIN root THEN NoRecord
    ELSE LET record == root[Head(parts)]
         IN IF Len(parts) = 1 THEN record
            ELSE IF record.type # TREE THEN NoRecord
            ELSE record_at_path(LoadTree(record), Tail(parts))

MoveOf(forest, node) ==
    [src |-> relpath_for(forest, forest[node].link), dst |-> relpath_for(forest, node)]

WriteOf(forest, node) ==
    [op |-> IF forest[node].record.type = TREE THEN "mkdir"
            ELSE IF forest[node].kind = Added THEN "add"
            ELSE "modify",
     path |-> relpath_for(forest, node),
     hash |-> forest[node].record.hash]

MapSeq(seq, Op(_)) == [i \in 1..Len(seq) |-> Op(seq[i])]

\* The moves in the order they are performed.
PlanMoves(forest) ==
    LET moved_from == OfKind(forest, Flatten(forest), MovedFrom)
        linked == SelectSeq(moved_from, LAMBDA n : forest[n].link # 0)
    IN MapSeq(SortAsc(forest, linked, 0, MaxDepthOf(forest)),
              LAMBDA n : MoveOf(forest, n))

\* The removals in the order they are performed.
PlanRemovals(forest) ==
    LET removed == OfKind(forest, Flatten(forest), Removed)
    IN MapSeq(SortDesc(forest, removed, MaxDepthOf(forest)),
              LAMBDA n : relpath_for(forest, n))

\* The writes in the order they are performed: added directories, added
\* blobs, then the modified records, each by ascending depth.
PlanWrites(forest) ==
    LET all_nodes == Flatten(forest)
        added == OfKind(forest, all_nodes, Added)
        modified == OfKind(forest, all_nodes, Modified)
        added_dirs == SelectSeq(added, LAMBDA n : forest[n].record.type = TREE)
        added_blobs == SelectSeq(added, LAMBDA n : forest[n].record.type = BLOB)
        maxd == MaxDepthOf(forest)
    IN MapSeq(SortAsc(forest, added_dirs, 0, maxd)
                \o SortAsc(forest, added_blobs, 0, maxd)
                \o SortAsc(forest, modified, 0, maxd),
              LAMBDA n : WriteOf(forest, n))

StepOk(fs, events) == [ok |-> TRUE, fs |-> fs, events |-> events, error |-> ""]
StepFail(fs, events, error) == [ok |-> FALSE, fs |-> fs, events |-> events, error |-> error]

\* One iteration of the loop over the moves.
DoMove(fs, m) ==
    IF ~FsExists(fs, m.src) THEN StepFail(fs, <<>>, "RepositoryError")
    ELSE LET mk == Mkdir(fs, Parent(m.dst))
         IN IF ~mk.ok THEN StepFail(mk.fs, mk.events, mk.error)
            ELSE LET mv == ShutilMove(mk.fs, m.src, m.dst)
                 IN IF ~mv.ok THEN StepFail(mv.fs, mk.events, "RepositoryError")
                    ELSE StepOk(mv.fs, mk.events \o mv.events)

\* One iteration of the loop over the removals.
DoRemoval(fs, path) ==
    IF ~FsExists(fs, path) THEN StepOk(fs, <<>>)
    ELSE RemovePath(fs, path)

\* One iteration of the loops over the added directories, the added blobs and
\* the modified records.
DoWrite(fs, w, target_root) ==
    IF w.op = "mkdir"
    THEN LET mk == Mkdir(fs, w.path)
         IN IF mk.ok THEN mk ELSE StepFail(mk.fs, mk.events, mk.error)
    ELSE LET mk == Mkdir(fs, Parent(w.path))
         IN IF ~mk.ok THEN StepFail(mk.fs, mk.events, mk.error)
            ELSE IF w.op = "add"
            THEN LET wr == WriteBytes(mk.fs, w.path, read_object_bytes(w.hash))
                 IN IF wr.ok THEN StepOk(wr.fs, mk.events \o wr.events)
                    ELSE StepFail(mk.fs, mk.events, "RepositoryError")
            ELSE LET new_record == record_at_path(target_root, w.path)
                 IN IF new_record.type # BLOB
                    THEN StepFail(mk.fs, mk.events, "RepositoryError")
                    ELSE LET wr == WriteBytes(mk.fs, w.path,
                                              read_object_bytes(new_record.hash))
                         IN IF wr.ok THEN StepOk(wr.fs, mk.events \o wr.events)
                            ELSE StepFail(mk.fs, mk.events, "RepositoryError")

\* The removals taken before the moves.
NextBucketRemovalsFirst(moves, removals, writes) ==
    IF removals # <<>> THEN "remove"
    ELSE IF moves # <<>> THEN "move"
    ELSE IF writes # <<>> THEN "write"
    ELSE "done"

\* The bucket the applier takes its next step from: the moves, then the
\* removals, then the writes.
NextBucket(moves, removals, writes) ==
    IF moves # <<>> THEN "move"
    ELSE IF removals # <<>> THEN "remove"
    ELSE IF writes # <<>> THEN "write"
    ELSE "done"


(***************************************************************************)
(* checkout.apply_diffs: the applier of the checkout module.               *)
(***************************************************************************)
Reverse(seq) == [i \in 1..Len(seq) |-> seq[Len(seq) + 1 - i]]

\* Path.mkdir(parents=False, exist_ok=True).
MkdirOne(fs, path) ==
    IF FsIsDir(fs, path) THEN FsOk(fs, <<>>)
    ELSE IF FsIsFile(fs, path) THEN FsFail(fs, <<>>, "FileExistsError")
    ELSE IF FileOnWay(fs, path) THEN FsFail(fs, <<>>, "NotADirectoryError")
    ELSE IF ~FsIsDir(fs, Parent(path)) THEN FsFail(fs, <<>>, "FileNotFoundError")
    ELSE FsOk(FsPut(fs, path, Dir(EmptyDir)), << <<"mkdir", path>> >>)

\* get_moved_to_path(diff): the names met walking the parent references.
get_moved_to_path(forest, node) == relpath_for(forest, node)

\* The loop of traverse_post_order: the nodes in the order they are popped,
\* each with the path joined from the names on the way down.
RECURSIVE TraverseLoop(_, _, _)
TraverseLoop(forest, stack, visited) ==
    IF stack = <<>> THEN visited
    ELSE LET top == stack[Len(stack)]
             node == top[1]
             path == top[2]
             pushed == [i \in 1..Len(forest[node].children) |->
                           << forest[node].children[i],
                              Append(path, forest[forest[node].children[i]].record.name) >>]
         IN TraverseLoop(forest,
                         SubSeq(stack, 1, Len(stack) - 1) \o Reverse(pushed),
                         Append(visited, top))

\* traverse_post_order(diffs, cwd, moves, removals, writes).
traverse_post_order(forest) ==
    LET start == [i \in 1..Len(Roots(forest)) |->
                     << Roots(forest)[i], <<forest[Roots(forest)[i]].record.name>> >>]
        visited == TraverseLoop(forest, Reverse(start), <<>>)
    IN [moves |-> SelectSeq(visited, LAMBDA it :
                      forest[it[1]].kind = MovedFrom /\ forest[it[1]].link # 0),
        removals |-> SelectSeq(visited, LAMBDA it : forest[it[1]].kind = Removed),
        writes |-> SelectSeq(visited, LAMBDA it :
                      forest[it[1]].kind \in {Added, Modified})]

\* list.sort(key=...): stable, ascending, on <<key, item>> pairs.
RECURSIVE KeyedAsc(_, _, _)
KeyedAsc(pairs, d, maxd) ==
    IF d > maxd THEN <<>>
    ELSE SelectSeq(pairs, LAMBDA pr : pr[1] = d) \o KeyedAsc(pairs, d + 1, maxd)

\* list.sort(key=..., reverse=True): stable, descending.
RECURSIVE KeyedDesc(_, _)
KeyedDesc(pairs, d) ==
    SelectSeq(pairs, LAMBDA pr : pr[1] = d)
        \o (IF d = 0 THEN <<>> ELSE KeyedDesc(pairs, d - 1))

\* move_sort_key(item): the depth of the path of the node's counterpart.
move_sort_key(forest, item) == Len(get_moved_to_path(forest, forest[item[1]].link))

\* A run of the applier: the directory, the filesystem events so far and the
\* exception raised, "" for none.
Run(fs, log, error) == [fs |-> fs, log |-> log, error |-> error]

Log(bucket, events) == [i \in 1..Len(events) |-> <<bucket>> \o events[i]]

\* handle_moves(moves, cwd), the moves sorted.
RECURSIVE MovesLoop(_, _, _)
MovesLoop(forest, run, moves) ==
    IF moves = <<>> \/ run.error # "" THEN run
    ELSE LET node == Head(moves)[1]
             dest_path == Head(moves)[2]
             src_rel == get_moved_to_path(forest, forest[node].link)
         IN IF ~FsExists(run.fs, src_rel)
            THEN Run(run.fs, run.log, "MissingMovedFromError")
            ELSE LET mk == Mkdir(run.fs, Parent(dest_path))
                     mv == ShutilMove(mk.fs, src_rel, dest_path)
                 IN IF ~mk.ok
                    THEN Run(mk.fs, run.log \o Log("move", mk.events), mk.error)
                    ELSE IF ~mv.ok
                    THEN Run(mk.fs, run.log \o Log("move", mk.events), "MoveError")
                    ELSE MovesLoop(forest,
                                   Run(mv.fs, run.log \o Log("move", mk.events \o mv.events), ""),
                                   Tail(moves))

\* "moves.sort(key=move_sort_key)"
sort_moves(forest, moves) ==
    LET keyed == [i \in 1..Len(moves) |-> <<move_sort_key(forest, moves[i]), moves[i]>>]
        sorted == KeyedAsc(keyed, 0, Len(forest))
    IN [i \in 1..Len(sorted) |-> sorted[i][2]]

handle_moves(forest, run, moves) == MovesLoop(forest, run, sort_moves(forest, moves))

\* handle_removals(removals), the removals sorted.
RECURSIVE RemovalsLoop(_, _)
RemovalsLoop(run, removals) ==
    IF removals = <<>> \/ run.error # "" THEN run
    ELSE LET path == Head(removals)[2]
         IN IF ~FsExists(run.fs, path) THEN RemovalsLoop(run, Tail(removals))
            ELSE LET rm == RemovePath(run.fs, path)
                 IN RemovalsLoop(Run(rm.fs, run.log \o Log("remove", rm.events), ""),
                                 Tail(removals))

\* The removals performed although a move has failed.
handle_removals_after_error(forest, run, removals) ==
    LET keyed == [i \in 1..Len(removals) |-> <<Len(removals[i][2]), removals[i]>>]
        sorted == KeyedDesc(keyed, Len(forest))
        removed == RemovalsLoop(Run(run.fs, run.log, ""),
                                [i \in 1..Len(sorted) |-> sorted[i][2]])
    IN Run(removed.fs, removed.log, run.error)

\* The removals taken in the order of the traversal.
handle_removals_unsorted(forest, run, removals) ==
    IF run.error # "" THEN run ELSE RemovalsLoop(run, removals)

handle_removals(forest, run, removals) ==
    LET keyed == [i \in 1..Len(removals) |-> <<Len(removals[i][2]), removals[i]>>]
        sorted == KeyedDesc(keyed, Len(forest))
    IN IF run.error # "" THEN run
       ELSE RemovalsLoop(run, [i \in 1..Len(sorted) |-> sorted[i][2]])

\* The record looked up by the last name of the path in the root tree.
rewrite_modified_file_flat(run, rel_path, target_tree) ==
    LET record == record_at_path(target_tree, <<Basename(rel_path)>>)
        mk == MkdirOne(run.fs, Parent(rel_path))
        wr == WriteBytes(mk.fs, rel_path, read_object_bytes(record.hash))
    IN IF record.type # BLOB THEN Run(run.fs, run.log, "TraversalError")
       ELSE IF ~mk.ok THEN Run(run.fs, run.log, mk.error)
       ELSE IF ~wr.ok THEN Run(mk.fs, run.log \o Log("write", mk.events), wr.error)
       ELSE Run(wr.fs, run.log \o Log("write", mk.events \o wr.events), "")

\* rewrite_modified_file(working_dir, objects_dir, target_path, target_tree).
rewrite_modified_file(run, rel_path, target_tree) ==
    LET record == record_at_path(target_tree, rel_path)
        mk == MkdirOne(run.fs, Parent(rel_path))
        wr == WriteBytes(mk.fs, rel_path, read_object_bytes(record.hash))
    IN IF record.type # BLOB THEN Run(run.fs, run.log, "TraversalError")
       ELSE IF ~mk.ok THEN Run(run.fs, run.log, mk.error)
       ELSE IF ~wr.ok THEN Run(mk.fs, run.log \o Log("write", mk.events), wr.error)
       ELSE Run(wr.fs, run.log \o Log("write", mk.events \o wr.events), "")

\* One iteration of the loop of handle_writes.
WriteStep(forest, run, item, target_tree) ==
    LET node == item[1]
        path == item[2]
    IN IF forest[node].record.type = TREE
       THEN LET mk == MkdirOne(run.fs, path)
            IN IF mk.ok THEN Run(mk.fs, run.log \o Log("write", mk.events), "")
               ELSE Run(run.fs, run.log, mk.error)
       ELSE LET mk == MkdirOne(run.fs, Parent(path))
            IN IF ~mk.ok THEN Run(run.fs, run.log, mk.error)
               ELSE IF forest[node].kind = Added
               THEN LET wr == WriteBytes(mk.fs, path,
                                         read_object_bytes(forest[node].record.hash))
                    IN IF wr.ok
                       THEN Run(wr.fs, run.log \o Log("write", mk.events \o wr.events), "")
                       ELSE Run(mk.fs, run.log \o Log("write", mk.events), "WriteError")
               ELSE rewrite_modified_file(Run(mk.fs, run.log \o Log("write", mk.events), ""),
                                          path, target_tree)

\* handle_writes(writes, cwd, objects_dir, target_tree).
RECURSIVE handle_writes(_, _, _, _)
handle_writes(forest, run, writes, target_tree) ==
    IF writes = <<>> \/ run.error # "" THEN run
    ELSE handle_writes(forest, WriteStep(forest, run, Head(writes), target_tree),
                       Tail(writes), target_tree)

\* apply_diffs(diffs, working_dir, objects_dir, target_tree).
apply_diffs(forest, fs, target_tree) ==
    LET plan == traverse_post_order(forest)
        moved == handle_moves(forest, Run(fs, <<>>, ""), plan.moves)
        removed == handle_removals(forest, moved, plan.removals)
    IN handle_writes(forest, removed, plan.writes, target_tree)


(***************************************************************************)
(* The repository: refs and the object store.                              *)
(***************************************************************************)
VARIABLES
    workdir,    \* the working directory, without the metadata directory
    HEAD,       \* the content of the HEAD file
    heads,      \* refs/heads: branch name -> content of its ref file
    tags,       \* refs/tags: tag name -> content of its ref file
    objects,    \* the object store: the hashes of the stored objects
    pc,         \* "idle", "apply" while checkout runs the applier, "done" when a call has ended
    ck,         \* the checkout in progress
    oplog,      \* the filesystem events of the applier run in progress or just ended
    result,     \* the operation called last and how it ended
    diffIO      \* the trees given to diff and the forests it returned

vars == <<workdir, HEAD, heads, tags, objects, pc, ck, oplog, result, diffIO>>

DEFAULT_BRANCH == "main"
HEADS_DIR == "heads"
TAGS_DIR == "tags"

\* Ref values: HashRef(hash), SymRef("<namespace>/<name>"), and None.
HashRef(h) == <<"hash", h>>
SymRef(ns, name) == <<"sym", ns, name>>
None == <<"none">>
RefErr(kind) == <<"error", kind>>

IsHashRef(r) == r[1] = "hash"
IsSymRef(r) == r[1] = "sym"
IsErr(r) == r[1] = "error"

branch_ref(branch) == SymRef(HEADS_DIR, branch)
tag_ref(tag) == SymRef(TAGS_DIR, tag)

\* Objects and their hashes.
Commit(tree_hash, parent) == [tree_hash |-> tree_hash, parent |-> parent]
Tag(name, commit_hash, author, message) ==
    [name |-> name, commit_hash |-> commit_hash, author |-> author, message |-> message]
CommitHash(c) == <<"commit", c>>
TagHash(t) == <<"tag", t>>

IsStoredCommit(h) == h[1] = "commit" /\ h \in objects
IsStoredTag(h) == h[1] = "tag" /\ h \in objects

\* load_commit(objects_dir, hash), load_tag(objects_dir, hash): the object
\* stored under the hash of a ref.
load_commit(ref) == ref[2][2]
load_tag(ref) == ref[2][2]

\* read_ref(refs_dir / ref) for a ref under heads/ or tags/.
RefFileExists(ns, name) ==
    \/ ns = HEADS_DIR /\ name \in DOMAIN heads
    \/ ns = TAGS_DIR /\ name \in DOMAIN tags

read_ref(ns, name) == IF ns = HEADS_DIR THEN heads[name] ELSE tags[name]

\* Repository.resolve_ref at a depth of its recursion: a HashRef, None, or the
\* error raised.  The code holds no check of the depth; the interpreter ends a
\* recursion deeper than its limit with RecursionError.
RECURSIVE resolve_ref_at(_, _)
resolve_ref_at(ref, depth) ==
    IF depth > RecursionLimit THEN RefErr("RecursionError")
    ELSE IF IsHashRef(ref) THEN ref
    ELSE IF ref = None THEN None
    ELSE IF IsErr(ref) THEN ref
    ELSE IF ref[3] = "HEAD" THEN resolve_ref_at(HEAD, depth + 1)
    ELSE IF ~RefFileExists(ref[2], ref[3]) THEN RefErr("RefError")
    ELSE LET resolved == read_ref(ref[2], ref[3])
         IN IF IsHashRef(resolved) /\ ref[2] = TAGS_DIR
            THEN IF IsStoredTag(resolved[2])
                 THEN HashRef(resolved[2][2].commit_hash)
                 ELSE RefErr("RepositoryError")
            ELSE resolve_ref_at(resolved, depth + 1)

\* Repository.resolve_ref(ref).
resolve_ref(ref) == resolve_ref_at(ref, 0)

head_ref == HEAD
head_commit == resolve_ref(head_ref)

\* Repository._resolve_target: the root tree of an endpoint, a ref or the
\* working directory (a Path).
WorkingDir == <<"path">>

Resolved(tree) == [error |-> "", tree |-> tree]
Unresolved(error) == [error |-> error, tree |-> EmptyTree]

_resolve_target(t) ==
    IF t = WorkingDir THEN Resolved(build_fsTree(workdir))
    ELSE LET commit_hash == resolve_ref(t)
         IN IF IsErr(commit_hash) THEN Unresolved(commit_hash[2])
            ELSE IF commit_hash = None THEN Unresolved("RefError")
            ELSE IF ~IsStoredCommit(commit_hash[2]) THEN Unresolved("RepositoryError")
            ELSE Resolved(LoadTree([hash |-> commit_hash[2][2].tree_hash]))

NoRun == [DiffStart(EmptyTree, EmptyTree) EXCEPT !.stack = <<>>]
DiffResult(error, run) == [error |-> error, run |-> run]

\* "except RefError as e: raise RepositoryError(msg) from e": another exception
\* of _resolve_target leaves diff as it is.
DiffError(error) == IF error = "RefError" THEN "RepositoryError" ELSE error

\* Repository.diff(target1, target2).
diff(target1, target2) ==
    IF target1 = None \/ target2 = None THEN DiffResult("ValueError", NoRun)
    ELSE LET r1 == _resolve_target(target1)
             r2 == _resolve_target(target2)
         IN IF r1.error # "" THEN DiffResult(DiffError(r1.error), NoRun)
            ELSE IF r2.error # "" THEN DiffResult(DiffError(r2.error), NoRun)
            ELSE DiffResult("", DiffRun(r1.tree, r2.tree))

\* Repository.status().
status ==
    IF IsErr(head_commit) THEN DiffResult(head_commit[2], NoRun)
    ELSE diff(head_commit, WorkingDir)

(***************************************************************************)
(* Checkout.                                                               *)
(***************************************************************************)
\* A checkout target is a string: one of the hash format, a plain name, or a
\* path "<namespace>/<name>".
HashTarget(h) == <<"hash", h>>
NameTarget(name) == <<"name", name>>
PathTarget(ns, name) == <<"refpath", ns, name>>

\* The plain names that have the length and the alphabet of a hash, and the
\* hash such a name spells: the commit of the file "a" on an empty history.
HashNames == {"c0ffee"}
HashSpelled(name) ==
    CommitHash(Commit(TreeHash([n \in {NameSeq[1]} |-> TreeRecord(BLOB, BlobHash(1), n)]),
                      NoHash))

\* "len(target) == HASH_LENGTH and all(c in HASH_CHARSET for c in target)"
is_hash_format(target) ==
    target[1] = "hash" \/ (target[1] = "name" /\ target[2] \in HashNames)

hash_of_target(target) ==
    IF target[1] = "hash" THEN target[2] ELSE HashSpelled(target[2])

\* A resolution that looks a name up under heads/ and tags/ before it takes it
\* for a hash.
_resolve_checkout_target_names_first(target) ==
    IF target[1] = "hash" THEN HashRef(target[2])
    ELSE IF target[1] = "refpath"
    THEN IF RefFileExists(target[2], target[3])
         THEN SymRef(target[2], target[3])
         ELSE None
    ELSE IF target[2] \in DOMAIN heads THEN branch_ref(target[2])
    ELSE IF target[2] \in DOMAIN tags THEN tag_ref(target[2])
    ELSE IF is_hash_format(target) THEN HashRef(hash_of_target(target))
    ELSE None

\* Repository._resolve_checkout_target.
_resolve_checkout_target(target) ==
    IF is_hash_format(target) THEN HashRef(hash_of_target(target))
    ELSE IF target[1] = "refpath"
    THEN IF RefFileExists(target[2], target[3])
         THEN SymRef(target[2], target[3])
         ELSE None
    ELSE IF target[2] \in DOMAIN heads THEN branch_ref(target[2])
    ELSE IF target[2] \in DOMAIN tags THEN tag_ref(target[2])
    ELSE None

\* A check of cleanliness that lets every working directory pass.
is_clean_unchecked(st) == TRUE

\* "is_clean = self.status() == []"
is_clean(st) == Roots(st.run.nodes) = <<>>

IdleCk == [resolved |-> None, target_tree |-> EmptyTree,
           moves |-> <<>>, removals |-> <<>>, writes |-> <<>>]

NoValue == <<"">>
Outcome(op, outcome, target) ==
    [op |-> op, outcome |-> outcome, target |-> target, value |-> NoValue]
NoTarget == <<"">>
NoDiff == [tree1 |-> EmptyTree, tree2 |-> EmptyTree, stage |-> "none",
           forward |-> NoRun, backward |-> NoRun]

\* What checkout does before the applier runs: the error it raises, or the
\* resolved ref, the target tree and the forest to apply.
CheckoutPlan(error, resolved, target_tree, forest) ==
    [error |-> error, resolved |-> resolved, target_tree |-> target_tree, forest |-> forest]

checkout_prepare(target) ==
    LET st == status
    IN IF st.error # "" THEN CheckoutPlan(st.error, None, EmptyTree, <<>>)
       ELSE IF ~is_clean(st) THEN CheckoutPlan("RepositoryError", None, EmptyTree, <<>>)
       ELSE LET resolved_ref == _resolve_checkout_target(target)
            IN IF resolved_ref = None
               THEN CheckoutPlan("RepositoryError", None, EmptyTree, <<>>)
               ELSE LET tt == _resolve_target(resolved_ref)
                        diffs == diff(head_commit, resolved_ref)
                    IN IF tt.error # ""
                       THEN CheckoutPlan("RepositoryError", None, EmptyTree, <<>>)
                       ELSE IF diffs.error # ""
                       THEN CheckoutPlan(diffs.error, None, EmptyTree, <<>>)
                       ELSE CheckoutPlan("", resolved_ref, tt.tree, diffs.run.nodes)

\* HEAD written with the resolved ref as it is, a tag ref included.
checkout_head_unresolved(resolved_ref) == resolved_ref

\* The ref checkout writes to HEAD once the applier has returned.
checkout_head(resolved_ref) ==
    IF IsSymRef(resolved_ref) /\ resolved_ref[2] = HEADS_DIR
    THEN resolved_ref
    ELSE resolve_ref(resolved_ref)

\* A checkout that writes HEAD before the applier runs.
CheckoutHeadFirst(target) ==
    /\ pc = "idle"
    /\ LET plan == checkout_prepare(target)
       IN IF plan.error # ""
          THEN /\ result' = Outcome("checkout", plan.error, target)
               /\ pc' = "done"
               /\ UNCHANGED <<ck, HEAD>>
          ELSE /\ result' = Outcome("checkout", "running", target)
               /\ pc' = "apply"
               /\ HEAD' = checkout_head(plan.resolved)
               /\ ck' = [resolved |-> plan.resolved,
                         target_tree |-> plan.target_tree,
                         moves |-> PlanMoves(plan.forest),
                         removals |-> PlanRemovals(plan.forest),
                         writes |-> PlanWrites(plan.forest)]
    /\ oplog' = <<>>
    /\ diffIO' = NoDiff
    /\ UNCHANGED <<workdir, heads, tags, objects>>

\* Repository.checkout(target), up to the start of the applier.
Checkout(target) ==
    /\ pc = "idle"
    /\ LET plan == checkout_prepare(target)
       IN IF plan.error # ""
          THEN /\ result' = Outcome("checkout", plan.error, target)
               /\ pc' = "done"
               /\ UNCHANGED ck
          ELSE /\ result' = Outcome("checkout", "running", target)
               /\ pc' = "apply"
               /\ ck' = [resolved |-> plan.resolved,
                         target_tree |-> plan.target_tree,
                         moves |-> PlanMoves(plan.forest),
                         removals |-> PlanRemovals(plan.forest),
                         writes |-> PlanWrites(plan.forest)]
    /\ oplog' = <<>>
    /\ diffIO' = NoDiff
    /\ UNCHANGED <<workdir, HEAD, heads, tags, objects>>

\* The applier ends with an error: checkout raises it, HEAD is not written.
Abort(step, bucket) ==
    /\ workdir' = step.fs
    /\ oplog' = oplog \o Log(bucket, step.events)
    /\ pc' = "done"
    /\ ck' = IdleCk
    /\ result' = [result EXCEPT !.outcome = step.error]

ApplyMove ==
    /\ pc = "apply"
    /\ NextBucket(ck.moves, ck.removals, ck.writes) = "move"
    /\ LET step == DoMove(workdir, Head(ck.moves))
       IN IF step.ok
          THEN /\ workdir' = step.fs
               /\ oplog' = oplog \o Log("move", step.events)
               /\ ck' = [ck EXCEPT !.moves = Tail(@)]
               /\ UNCHANGED <<pc, result>>
          ELSE Abort(step, "move")
    /\ UNCHANGED <<HEAD, heads, tags, objects, diffIO>>

ApplyRemoval ==
    /\ pc = "apply"
    /\ NextBucket(ck.moves, ck.removals, ck.writes) = "remove"
    /\ LET step == DoRemoval(workdir, Head(ck.removals))
       IN IF step.ok
          THEN /\ workdir' = step.fs
               /\ oplog' = oplog \o Log("remove", step.events)
               /\ ck' = [ck EXCEPT !.removals = Tail(@)]
               /\ UNCHANGED <<pc, result>>
          ELSE Abort(step, "remove")
    /\ UNCHANGED <<HEAD, heads, tags, objects, diffIO>>

ApplyWrite ==
    /\ pc = "apply"
    /\ NextBucket(ck.moves, ck.removals, ck.writes) = "write"
    /\ LET step == DoWrite(workdir, Head(ck.writes), ck.target_tree)
       IN IF step.ok
          THEN /\ workdir' = step.fs
               /\ oplog' = oplog \o Log("write", step.events)
               /\ ck' = [ck EXCEPT !.writes = Tail(@)]
               /\ UNCHANGED <<pc, result>>
          ELSE Abort(step, "write")
    /\ UNCHANGED <<HEAD, heads, tags, objects, diffIO>>

\* The applier has returned: checkout writes HEAD.
CheckoutFinish ==
    /\ pc = "apply"
    /\ NextBucket(ck.moves, ck.removals, ck.writes) = "done"
    /\ LET new_head == checkout_head(ck.resolved)
       IN IF new_head = None \/ IsErr(new_head)
          THEN /\ result' = [result EXCEPT !.outcome = "RepositoryError"]
               /\ UNCHANGED HEAD
          ELSE /\ result' = [result EXCEPT !.outcome = "ok"]
               /\ HEAD' = new_head
    /\ pc' = "done"
    /\ ck' = IdleCk
    /\ UNCHANGED <<workdir, heads, tags, objects, oplog, diffIO>>


(***************************************************************************)
(* The other operations of the facade.                                     *)
(***************************************************************************)
BranchNames == {DEFAULT_BRANCH, "rel"}
TagNames == {"rel"}
TagNameSeq == <<"rel", "v1">>

\* The objects Repository.save_dir writes for a directory: every blob and
\* every tree below it, and the tree of the directory itself.
RECURSIVE SavedObjects(_)
SavedObjects(fs) ==
    {TreeHash(build_fsTree(fs))} \cup
    UNION {IF fs[n].kind = "dir" THEN SavedObjects(fs[n].data)
           ELSE {hash_file(fs[n].data)} : n \in DOMAIN fs \ {REPO_DIR}}

\* A save that hashes an empty directory whatever the path holds.
save_dir_empty(fs) == TreeHash(EmptyTree)

\* Repository.save_dir(path): the hash of the root tree.
save_dir(fs) == TreeHash(build_fsTree(fs))

(***************************************************************************)
(* save_dir and build_fsTree as the loops the code runs, on a directory    *)
(* whose entries iterdir() lists in a given order.                         *)
(***************************************************************************)
EntryOrder == <<REPO_DIR>> \o NameOrder
EntryNames == {EntryOrder[i] : i \in 1..Len(EntryOrder)}

\* "current_path.iterdir()" and "sorted(current_path.iterdir())".
Listed(dir, order) == SelectSeq(order, LAMBDA n : n \in DOMAIN dir)
SortedEntries(dir) == Listed(dir, EntryOrder)

NoHashes == [p \in {} |-> NoHash]

\* A scan of save_dir that does not skip the metadata directory.
RECURSIVE save_dir_items_all(_, _, _, _, _)
save_dir_items_all(dir, current_path, items, hashes, acc) ==
    IF items = <<>> THEN acc
    ELSE LET name == Head(items)
             item == current_path \o <<name>>
         IN IF dir[name].kind = "file"
            THEN save_dir_items_all(dir, current_path, Tail(items), hashes,
                     [acc EXCEPT !.tree_records =
                                     DictPut(@, name, TreeRecord(BLOB, hash_file(dir[name].data), name)),
                                 !.blobs = @ \cup {hash_file(dir[name].data)}])
            ELSE IF item \in DOMAIN hashes
            THEN save_dir_items_all(dir, current_path, Tail(items), hashes,
                     [acc EXCEPT !.tree_records =
                                     DictPut(@, name, TreeRecord(TREE, hashes[item], name))])
            ELSE [acc EXCEPT !.pushed = <<item>>]

\* "for item in current_path.iterdir()": the records gathered and the files
\* saved, and the subdirectory at which the loop broke, if it did.
RECURSIVE save_dir_items(_, _, _, _, _)
save_dir_items(dir, current_path, items, hashes, acc) ==
    IF items = <<>> THEN acc
    ELSE LET name == Head(items)
             item == current_path \o <<name>>
         IN IF name = REPO_DIR
            THEN save_dir_items(dir, current_path, Tail(items), hashes, acc)
            ELSE IF dir[name].kind = "file"
            THEN save_dir_items(dir, current_path, Tail(items), hashes,
                     [acc EXCEPT !.tree_records =
                                     DictPut(@, name, TreeRecord(BLOB, hash_file(dir[name].data), name)),
                                 !.blobs = @ \cup {hash_file(dir[name].data)}])
            ELSE IF item \in DOMAIN hashes
            THEN save_dir_items(dir, current_path, Tail(items), hashes,
                     [acc EXCEPT !.tree_records =
                                     DictPut(@, name, TreeRecord(TREE, hashes[item], name))])
            ELSE [acc EXCEPT !.pushed = <<item>>]

NoScan == [tree_records |-> EmptyTree, blobs |-> {}, pushed |-> <<>>]

save_dir_scan_all(dir, current_path, items, hashes) ==
    save_dir_items_all(dir, current_path, items, hashes, NoScan)

save_dir_scan(dir, current_path, items, hashes) ==
    save_dir_items(dir, current_path, items, hashes, NoScan)

\* The iterations save_dir is followed for.
SaveFuel == 4 * (MaxNodes + 2)

\* "while stack": the hash of every directory saved, the blobs saved, and the
\* directories in the order their trees were saved.
RECURSIVE save_dir_loop(_, _, _, _, _)
save_dir_loop(fs, order, stack, st, fuel) ==
    IF stack = <<>> THEN st
    ELSE IF fuel = 0 THEN [st EXCEPT !.error = "running"]
    ELSE LET current_path == stack[Len(stack)]
             popped == SubSeq(stack, 1, Len(stack) - 1)
             dir == FsLookup(fs, current_path).data
             scan == save_dir_scan(dir, current_path, Listed(dir, order), st.hashes)
             saved == [st EXCEPT !.blobs = @ \cup scan.blobs]
         IN IF scan.pushed # <<>>
            THEN save_dir_loop(fs, order, popped \o <<current_path>> \o scan.pushed,
                               saved, fuel - 1)
            ELSE save_dir_loop(fs, order, popped,
                               [saved EXCEPT !.hashes = DictPut(@, current_path,
                                                                TreeHash(scan.tree_records)),
                                             !.trees = Append(@, current_path)],
                               fuel - 1)

\* Repository.save_dir(path) on a directory.
save_dir_run(fs, order) ==
    save_dir_loop(fs, order, << <<>> >>,
                  [hashes |-> NoHashes, blobs |-> {}, trees |-> <<>>, error |-> ""],
                  SaveFuel)

\* The objects a run of save_dir has written.
SavedByRun(run) == run.blobs \cup {run.hashes[p] : p \in DOMAIN run.hashes}

\* The subdirectories of a directory, the metadata directory among them.
SubdirsOfAll(dir, current_path, entries) ==
    LET names == SelectSeq(entries, LAMBDA n : dir[n].kind = "dir")
    IN [i \in 1..Len(names) |-> current_path \o <<names[i]>>]

\* The subdirectories of a directory that are not the metadata directory,
\* in a given order of its entries.
SubdirsOf(dir, current_path, entries) ==
    LET names == SelectSeq(entries, LAMBDA n : n # REPO_DIR /\ dir[n].kind = "dir")
    IN [i \in 1..Len(names) |-> current_path \o <<names[i]>>]

\* build_fsTree, first loop: "while traversal_stack".
RECURSIVE build_order_loop(_, _, _)
build_order_loop(fs, traversal_stack, build_order) ==
    IF traversal_stack = <<>> THEN build_order
    ELSE LET current_path == traversal_stack[Len(traversal_stack)]
             popped == SubSeq(traversal_stack, 1, Len(traversal_stack) - 1)
             dir == FsLookup(fs, current_path).data
         IN build_order_loop(fs,
                popped \o SubdirsOf(dir, current_path, Reverse(SortedEntries(dir))),
                Append(build_order, current_path))

\* "for entry in sorted(current_path.iterdir())" of the second loop.
RECURSIVE build_records(_, _, _, _, _)
build_records(dir, current_path, entries, dir_hashes, acc) ==
    IF entries = <<>> \/ acc.error # "" THEN acc
    ELSE LET name == Head(entries)
             entry == current_path \o <<name>>
         IN IF name = REPO_DIR
            THEN build_records(dir, current_path, Tail(entries), dir_hashes, acc)
            ELSE IF dir[name].kind = "dir"
            THEN IF entry \notin DOMAIN dir_hashes
                 THEN [acc EXCEPT !.error = "MissingHashError"]
                 ELSE build_records(dir, current_path, Tail(entries), dir_hashes,
                          [acc EXCEPT !.tree_records =
                              DictPut(@, name, TreeRecord(TREE, dir_hashes[entry], name))])
            ELSE build_records(dir, current_path, Tail(entries), dir_hashes,
                     [acc EXCEPT !.tree_records =
                         DictPut(@, name, TreeRecord(BLOB, hash_file(dir[name].data), name))])

\* build_fsTree, second loop: "while build_order".
RECURSIVE build_trees_loop(_, _, _)
build_trees_loop(fs, build_order, st) ==
    IF build_order = <<>> \/ st.error # "" THEN st
    ELSE LET current_path == build_order[Len(build_order)]
             popped == SubSeq(build_order, 1, Len(build_order) - 1)
             dir == FsLookup(fs, current_path).data
             built == build_records(dir, current_path, SortedEntries(dir), st.dir_hashes,
                                    [tree_records |-> EmptyTree, error |-> ""])
             t_hash == TreeHash(built.tree_records)
         IN IF built.error # "" THEN [st EXCEPT !.error = built.error]
            ELSE build_trees_loop(fs, popped,
                     [st EXCEPT !.dir_hashes = DictPut(@, current_path, t_hash),
                                !.tree_hashes = @ \cup {t_hash},
                                !.built = Append(@, current_path)])

\* build_fsTree(path, tree_hashes, repo_dir_name) on a directory: the hash of
\* every directory, the keys of tree_hashes, and the error raised, if any.
build_fsTree_run(fs) ==
    build_trees_loop(fs, build_order_loop(fs, << <<>> >>, <<>>),
                     [dir_hashes |-> NoHashes, tree_hashes |-> {}, built |-> <<>>,
                      error |-> ""])

StoredCommits == {h \in objects : h[1] = "commit"}

NoResult == Outcome("", "", NoTarget)

\* A call has ended: what it was given, how it ended and what it returned.
Returned(op, outcome, target, value) ==
    [Outcome(op, outcome, target) EXCEPT !.value = value]

Observe(op, outcome, target, value) ==
    /\ result' = Returned(op, outcome, target, value)
    /\ pc' = "done"
    /\ UNCHANGED <<oplog, diffIO>>

\* The caller has taken the outcome of the call that ended.
Return ==
    /\ pc = "done"
    /\ pc' = "idle"
    /\ result' = NoResult
    /\ oplog' = <<>>
    /\ diffIO' = NoDiff
    /\ UNCHANGED <<workdir, HEAD, heads, tags, objects, ck>>

\* The user changes the files of the working directory.
WriteWorkdir(t) ==
    /\ pc = "idle"
    /\ workdir' = Materialize(t)
    /\ UNCHANGED <<HEAD, heads, tags, objects, pc, ck, result, oplog, diffIO>>

\* Repository.save_dir(working_dir) called by the user.
SaveDir ==
    /\ pc = "idle"
    /\ objects' = objects \cup SavedObjects(workdir)
    /\ Observe("save_dir", "ok", NoTarget, HashRef(save_dir(workdir)))
    /\ UNCHANGED <<workdir, HEAD, heads, tags, ck>>

\* A detached HEAD taken for the default branch.
commit_branch_default(ref) == IF IsSymRef(ref) THEN ref ELSE branch_ref(DEFAULT_BRANCH)

\* "branch = head_ref if isinstance(head_ref, SymRef) else None"
commit_branch(ref) == IF IsSymRef(ref) THEN ref ELSE None

\* A commit written without its parent.
commit_parent_dropped(parent_commit_ref) == NoHash

\* The parent field of Commit(tree_hash, author, message, timestamp,
\* parent_commit_ref): the hash of the commit of HEAD, or none.
commit_parent(parent_commit_ref) ==
    IF IsHashRef(parent_commit_ref) THEN parent_commit_ref[2] ELSE NoHash

\* Repository.commit_working_dir(author, message), both given.
CommitWorkingDir ==
    /\ pc = "idle"
    /\ Cardinality(StoredCommits) < MaxCommits
    /\ LET branch == commit_branch(head_ref)
           parent_commit_ref == head_commit
           tree_hash == save_dir(workdir)
           commit == Commit(tree_hash, commit_parent(parent_commit_ref))
           commit_ref == HashRef(CommitHash(commit))
       IN IF IsErr(parent_commit_ref)
          THEN /\ Observe("commit", parent_commit_ref[2], NoTarget, NoValue)
               /\ UNCHANGED <<heads, objects>>
          ELSE /\ objects' = objects \cup SavedObjects(workdir) \cup {commit_ref[2]}
               /\ IF branch # None
                  THEN IF RefFileExists(branch[2], branch[3])
                       THEN /\ heads' = [heads EXCEPT ![branch[3]] = commit_ref]
                            /\ Observe("commit", "ok", NoTarget, commit_ref)
                       ELSE /\ UNCHANGED heads
                            /\ Observe("commit", "RepositoryError", NoTarget, NoValue)
                  ELSE /\ UNCHANGED heads
                       /\ Observe("commit", "ok", NoTarget, commit_ref)
    /\ UNCHANGED <<workdir, HEAD, tags, ck>>

\* Repository.add_branch(branch).
AddBranch(branch) ==
    /\ pc = "idle"
    /\ IF branch \in DOMAIN heads
       THEN /\ Observe("add_branch", "RepositoryError", <<branch>>, NoValue)
            /\ UNCHANGED heads
       ELSE /\ heads' = [b \in DOMAIN heads \cup {branch} |->
                            IF b = branch THEN None ELSE heads[b]]
            /\ Observe("add_branch", "ok", <<branch>>, NoValue)
    /\ UNCHANGED <<workdir, HEAD, tags, objects, ck>>

\* Repository.branches().
branches == DOMAIN heads

\* A delete_branch without the check of the last branch.
DeleteBranchAny(branch) ==
    /\ pc = "idle"
    /\ IF branch \notin DOMAIN heads
       THEN /\ Observe("delete_branch", "RepositoryError", <<branch>>, NoValue)
            /\ UNCHANGED heads
       ELSE /\ heads' = [b \in DOMAIN heads \ {branch} |-> heads[b]]
            /\ Observe("delete_branch", "ok", <<branch>>, NoValue)
    /\ UNCHANGED <<workdir, HEAD, tags, objects, ck>>

\* Repository.delete_branch(branch).
DeleteBranch(branch) ==
    /\ pc = "idle"
    /\ IF branch \notin DOMAIN heads
       THEN /\ Observe("delete_branch", "RepositoryError", <<branch>>, NoValue)
            /\ UNCHANGED heads
       ELSE IF Cardinality(branches) = 1
       THEN /\ Observe("delete_branch", "RepositoryError", <<branch>>, NoValue)
            /\ UNCHANGED heads
       ELSE /\ heads' = [b \in DOMAIN heads \ {branch} |-> heads[b]]
            /\ Observe("delete_branch", "ok", <<branch>>, NoValue)
    /\ UNCHANGED <<workdir, HEAD, tags, objects, ck>>

\* Repository.update_ref(branch_ref(branch), new_ref) with a HashRef or a SymRef.
UpdateRef(branch, new_ref) ==
    /\ pc = "idle"
    /\ IsHashRef(new_ref) \/ IsSymRef(new_ref)
    /\ IF branch \notin DOMAIN heads
       THEN /\ Observe("update_ref", "RepositoryError", <<branch, new_ref>>, NoValue)
            /\ UNCHANGED heads
       ELSE /\ heads' = [heads EXCEPT ![branch] = new_ref]
            /\ Observe("update_ref", "ok", <<branch, new_ref>>, NoValue)
    /\ UNCHANGED <<workdir, HEAD, tags, objects, ck>>

\* Repository.create_tag(tag_name, commit_hash, author, message).
\* A check that finds no tag file under any name.
tag_path_missing(tag_name) == FALSE

\* "tag_path = self.tags_dir() / tag_name", "tag_path.exists()"
tag_path_exists(tag_name) == RefFileExists(TAGS_DIR, tag_name)

\* A string that has not the length or not the alphabet of a hash.
MalformedHash == <<"malformed", Commit(NoHash, NoHash)>>

\* "len(commit_hash) != HASH_LENGTH or not all(c in HASH_CHARSET ...)"
hash_format(commit_hash) == commit_hash # MalformedHash

\* A create_tag that saves the Tag object before it looks at its arguments.
CreateTagEager(tag_name, commit_hash, author, message) ==
    /\ pc = "idle"
    /\ LET args == <<tag_name, commit_hash, author, message>>
           tag_object_hash == TagHash(Tag(tag_name, commit_hash, author, message))
       IN /\ objects' = objects \cup {tag_object_hash}
          /\ IF tag_name = "" \/ ~hash_format(commit_hash) \/ author = "" \/ message = ""
             THEN /\ Observe("create_tag", "ValueError", args, NoValue)
                  /\ UNCHANGED tags
             ELSE IF commit_hash \notin objects
             THEN /\ Observe("create_tag", "UnknownHashError", args, NoValue)
                  /\ UNCHANGED tags
             ELSE IF ~IsStoredCommit(commit_hash)
             THEN /\ Observe("create_tag", "RepositoryError", args, NoValue)
                  /\ UNCHANGED tags
             ELSE IF tag_path_exists(tag_name)
             THEN /\ Observe("create_tag", "TagExistsError", args, NoValue)
                  /\ UNCHANGED tags
             ELSE /\ tags' = [t \in DOMAIN tags \cup {tag_name} |->
                                 IF t = tag_name THEN HashRef(tag_object_hash) ELSE tags[t]]
                  /\ Observe("create_tag", "ok", args, NoValue)
    /\ UNCHANGED <<workdir, HEAD, heads, ck>>

CreateTag(tag_name, commit_hash, author, message) ==
    /\ pc = "idle"
    /\ LET args == <<tag_name, commit_hash, author, message>>
       IN IF tag_name = "" \/ ~hash_format(commit_hash) \/ author = "" \/ message = ""
          THEN /\ Observe("create_tag", "ValueError", args, NoValue)
               /\ UNCHANGED <<tags, objects>>
          ELSE IF commit_hash \notin objects
          THEN /\ Observe("create_tag", "UnknownHashError", args, NoValue)
               /\ UNCHANGED <<tags, objects>>
          ELSE IF ~IsStoredCommit(commit_hash)
          THEN /\ Observe("create_tag", "RepositoryError", args, NoValue)
               /\ UNCHANGED <<tags, objects>>
          ELSE IF tag_path_exists(tag_name)
          THEN /\ Observe("create_tag", "TagExistsError", args, NoValue)
               /\ UNCHANGED <<tags, objects>>
          ELSE LET tag_obj == Tag(tag_name, commit_hash, author, message)
                   tag_object_hash == TagHash(tag_obj)
               IN /\ objects' = objects \cup {tag_object_hash}
                  /\ tags' = [t \in DOMAIN tags \cup {tag_name} |->
                                 IF t = tag_name THEN HashRef(tag_object_hash) ELSE tags[t]]
                  /\ Observe("create_tag", "ok", args, NoValue)
    /\ UNCHANGED <<workdir, HEAD, heads, ck>>

\* Repository.delete_tag(tag_name).
\* A delete_tag that also removes the tag object of the ref it unlinks.
DeleteTagAndObject(tag_name) ==
    /\ pc = "idle"
    /\ IF tag_name = ""
       THEN /\ Observe("delete_tag", "ValueError", <<tag_name>>, NoValue)
            /\ UNCHANGED <<tags, objects>>
       ELSE IF tag_name \notin DOMAIN tags
       THEN /\ Observe("delete_tag", "TagNotFound", <<tag_name>>, NoValue)
            /\ UNCHANGED <<tags, objects>>
       ELSE /\ tags' = [t \in DOMAIN tags \ {tag_name} |-> tags[t]]
            /\ objects' = objects \ {tags[tag_name][2]}
            /\ Observe("delete_tag", "ok", <<tag_name>>, NoValue)
    /\ UNCHANGED <<workdir, HEAD, heads, ck>>

\* Repository.delete_tag(tag_name).
DeleteTag(tag_name) ==
    /\ pc = "idle"
    /\ IF tag_name = ""
       THEN /\ Observe("delete_tag", "ValueError", <<tag_name>>, NoValue)
            /\ UNCHANGED tags
       ELSE IF tag_name \notin DOMAIN tags
       THEN /\ Observe("delete_tag", "TagNotFound", <<tag_name>>, NoValue)
            /\ UNCHANGED tags
       ELSE /\ tags' = [t \in DOMAIN tags \ {tag_name} |-> tags[t]]
            /\ Observe("delete_tag", "ok", <<tag_name>>, NoValue)
    /\ UNCHANGED <<workdir, HEAD, heads, objects, ck>>

\* Repository.tags(): the tag object of every file under tags/, in the order
\* the names are listed.
\* A listing that stops after the first tag file.
list_tags_first ==
    LET tag_names == SelectSeq(TagNameSeq, LAMBDA n : n \in DOMAIN tags)
    IN [i \in 1..(IF tag_names = <<>> THEN 0 ELSE 1) |-> load_tag(tags[tag_names[i]])]

list_tags ==
    LET tag_names == SelectSeq(TagNameSeq, LAMBDA n : n \in DOMAIN tags)
    IN [i \in 1..Len(tag_names) |-> load_tag(tags[tag_names[i]])]

TagsCall ==
    /\ pc = "idle"
    /\ Observe("tags", "ok", NoTarget, list_tags)
    /\ UNCHANGED <<workdir, HEAD, heads, tags, objects, ck>>

\* The loop of Repository.log: the commits yielded from current_hash on, and
\* the error raised when a commit cannot be loaded.
\* A walk that yields the tip and stops.
log_from_tip_only(current_hash, entries) ==
    [error |-> "", entries |-> IF current_hash = None THEN <<>> ELSE <<current_hash>>]

\* "while current_hash": load the commit, yield it, go on to its parent.
RECURSIVE log_from(_, _)
log_from(current_hash, entries) ==
    IF current_hash = None THEN [error |-> "", entries |-> entries]
    ELSE IF ~IsStoredCommit(current_hash[2])
    THEN [error |-> "RepositoryError", entries |-> entries]
    ELSE LET commit == load_commit(current_hash)
         IN log_from(IF commit.parent # NoHash THEN HashRef(commit.parent) ELSE None,
                     Append(entries, current_hash))

\* Repository.log(tip).
log(tip) ==
    LET current_hash == resolve_ref(IF tip = None THEN head_ref ELSE tip)
    IN IF IsErr(current_hash) THEN [error |-> current_hash[2], entries |-> <<>>]
       ELSE log_from(current_hash, <<>>)

LogCall(tip) ==
    /\ pc = "idle"
    /\ LET entries == log(tip)
       IN Observe("log", IF entries.error = "" THEN "ok" ELSE entries.error,
                  <<tip>>, entries.entries)
    /\ UNCHANGED <<workdir, HEAD, heads, tags, objects, ck>>

\* Repository.resolve_ref(ref) called by the user.
ResolveRefCall(ref) ==
    /\ pc = "idle"
    /\ LET resolved == resolve_ref(ref)
       IN Observe("resolve_ref", IF IsErr(resolved) THEN resolved[2] ELSE "ok",
                  <<ref>>, resolved)
    /\ UNCHANGED <<workdir, HEAD, heads, tags, objects, ck>>

\* A diff that saves the trees of a directory endpoint.
DiffCallSaving(target1, target2) ==
    /\ pc = "idle"
    /\ LET d == diff(target1, target2)
       IN /\ result' = Outcome("diff", IF d.error = "" THEN "ok" ELSE d.error,
                               <<target1, target2>>)
          /\ diffIO' = [NoDiff EXCEPT !.stage = "forward", !.forward = d.run]
    /\ objects' = IF WorkingDir \in {target1, target2}
                  THEN objects \cup SavedObjects(workdir)
                  ELSE objects
    /\ oplog' = <<>>
    /\ pc' = "done"
    /\ UNCHANGED <<workdir, HEAD, heads, tags, ck>>

\* Repository.diff(target1, target2) called by the user.
DiffCall(target1, target2) ==
    /\ pc = "idle"
    /\ LET d == diff(target1, target2)
       IN /\ result' = Outcome("diff", IF d.error = "" THEN "ok" ELSE d.error,
                               <<target1, target2>>)
          /\ diffIO' = [NoDiff EXCEPT !.stage = "forward", !.forward = d.run]
    /\ oplog' = <<>>
    /\ pc' = "done"
    /\ UNCHANGED <<workdir, HEAD, heads, tags, objects, ck>>

\* Repository.status() called by the user.
StatusCall ==
    /\ pc = "idle"
    /\ LET d == status
       IN /\ result' = Outcome("status", IF d.error = "" THEN "ok" ELSE d.error,
                               <<head_commit, WorkingDir>>)
          /\ diffIO' = [NoDiff EXCEPT !.stage = "forward", !.forward = d.run]
    /\ oplog' = <<>>
    /\ pc' = "done"
    /\ UNCHANGED <<workdir, HEAD, heads, tags, objects, ck>>

\* The keys of tree_hashes after _resolve_target(t, tree_hashes): every tree
\* build_fsTree built for a directory, the root tree loaded for a commit.
resolved_tree_hashes(t) ==
    IF t = WorkingDir THEN build_fsTree_run(workdir).tree_hashes
    ELSE IF _resolve_target(t).error = "" THEN {TreeHash(_resolve_target(t).tree)}
    ELSE {}

\* Repository._load_tree(record_hash, tree_hashes): where the tree is found.
_load_tree(record_hash, tree_hashes) ==
    IF record_hash \in tree_hashes THEN "cache"
    ELSE IF record_hash \in objects THEN "store"
    ELSE "error"

\* checkout.apply_diffs called on the forest diff returns for the commit of
\* HEAD and a stored commit, the working directory clean.
ApplyDiffsRun(commit_hash) ==
    /\ pc = "idle"
    /\ LET target == _resolve_target(HashRef(commit_hash))
           diffs == diff(head_commit, HashRef(commit_hash))
       IN /\ target.error = ""
          /\ diffs.error = ""
          /\ LET run == apply_diffs(diffs.run.nodes, workdir, target.tree)
             IN /\ workdir' = run.fs
                /\ oplog' = run.log
                /\ result' = Outcome("apply_diffs",
                                     IF run.error = "" THEN "ok" ELSE run.error,
                                     HashTarget(commit_hash))
    /\ pc' = "done"
    /\ diffIO' = NoDiff
    /\ UNCHANGED <<HEAD, heads, tags, objects, ck>>

ApplyDiffs(commit_hash) ==
    /\ status.error = ""
    /\ is_clean(status)
    /\ ApplyDiffsRun(commit_hash)

\* The same call on a working directory that no longer matches the commit of
\* HEAD.
ApplyDiffsDirty(commit_hash) ==
    /\ status.error = ""
    /\ ~is_clean(status)
    /\ ApplyDiffsRun(commit_hash)

\* The user deletes an entry of the working directory.
RemoveEntry(name) ==
    /\ pc = "idle"
    /\ name \in DOMAIN workdir
    /\ workdir' = [n \in DOMAIN workdir \ {name} |-> workdir[n]]
    /\ UNCHANGED <<HEAD, heads, tags, objects, pc, ck, result, oplog, diffIO>>

\* The strings a user may give to checkout.
BogusHash == <<"commit", Commit(NoHash, NoHash)>>

CheckoutTargets ==
    {HashTarget(h) : h \in StoredCommits \cup {BogusHash}}
        \cup {NameTarget(n) : n \in BranchNames \cup TagNames \cup {"ghost"}}
        \cup {PathTarget(TAGS_DIR, n) : n \in TagNames}

DiffEndpoints ==
    {HashRef(h) : h \in StoredCommits} \cup {SymRef("", "HEAD"), WorkingDir}

\* The tips a user may give to log: none, a branch, a tag, a commit.
LogTips ==
    {None} \cup {branch_ref(b) : b \in BranchNames} \cup {tag_ref(n) : n \in TagNames}
        \cup {HashRef(h) : h \in StoredCommits}

RepoIdle ==
    /\ pc = "idle"
    /\ ck = IdleCk
    /\ oplog = <<>>
    /\ result = NoResult
    /\ diffIO = NoDiff

\* Repository.init(): the repository right after it was created.
Init ==
    /\ workdir = EmptyDir
    /\ HEAD = branch_ref(DEFAULT_BRANCH)
    /\ heads = [b \in {DEFAULT_BRANCH} |-> None]
    /\ tags = EmptyTree
    /\ objects = {}
    /\ RepoIdle

Next ==
    \/ \E t \in WorkTrees : WriteWorkdir(t)
    \/ CommitWorkingDir
    \/ \E b \in BranchNames : AddBranch(b)
    \/ \E b \in BranchNames : UpdateRef(b, head_commit)
    \/ \E n \in TagNames, h \in StoredCommits : CreateTag(n, h, "author", "message")
    \/ \E t \in CheckoutTargets : Checkout(t)
    \/ ApplyMove
    \/ ApplyRemoval
    \/ ApplyWrite
    \/ CheckoutFinish
    \/ \E e1 \in DiffEndpoints, e2 \in DiffEndpoints : DiffCall(e1, e2)
    \/ Return

Spec == Init /\ [][Next]_vars

(***************************************************************************)
(* Checkout between two commits: the repository after the trees A and B    *)
(* were committed in turn on the default branch, and one call of an        *)
(* applier followed to its end.                                            *)
(***************************************************************************)
CommitOf(t, parent) == CommitHash(Commit(TreeHash(t), parent))

InitCheckout ==
    \E A \in Trees, B \in Trees :
        LET c1 == CommitOf(A, NoHash)
            c2 == CommitOf(B, c1)
        IN /\ workdir = Materialize(B)
           /\ HEAD = branch_ref(DEFAULT_BRANCH)
           /\ heads = [b \in {DEFAULT_BRANCH} |-> HashRef(c2)]
           /\ tags = EmptyTree
           /\ objects = SavedObjects(Materialize(A)) \cup SavedObjects(Materialize(B))
                            \cup {c1, c2}
           /\ RepoIdle

NextCheckout ==
    \/ \E h \in StoredCommits : Checkout(HashTarget(h))
    \/ \E h \in StoredCommits : ApplyDiffs(h)
    \/ ApplyMove
    \/ ApplyRemoval
    \/ ApplyWrite
    \/ CheckoutFinish

SpecCheckout == InitCheckout /\ [][NextCheckout]_vars

(***************************************************************************)
(* Diff of two trees, in both directions.                                  *)
(***************************************************************************)
InitDiff ==
    /\ workdir = EmptyDir
    /\ HEAD = branch_ref(DEFAULT_BRANCH)
    /\ heads = [b \in {DEFAULT_BRANCH} |-> None]
    /\ tags = EmptyTree
    /\ objects = {}
    /\ pc = "idle"
    /\ ck = IdleCk
    /\ oplog = <<>>
    /\ result = NoResult
    /\ \E A \in DiffTrees, B \in DiffTrees :
          diffIO = [NoDiff EXCEPT !.tree1 = A, !.tree2 = B, !.stage = "input"]

DiffForward ==
    /\ diffIO.stage = "input"
    /\ diffIO' = [diffIO EXCEPT !.stage = "forward",
                                !.forward = DiffRun(diffIO.tree1, diffIO.tree2)]
    /\ UNCHANGED <<workdir, HEAD, heads, tags, objects, pc, ck, oplog, result>>

DiffBackward ==
    /\ diffIO.stage = "forward"
    /\ diffIO' = [diffIO EXCEPT !.stage = "both",
                                !.backward = DiffRun(diffIO.tree2, diffIO.tree1)]
    /\ UNCHANGED <<workdir, HEAD, heads, tags, objects, pc, ck, oplog, result>>

NextDiff == DiffForward \/ DiffBackward

SpecDiff == InitDiff /\ [][NextDiff]_vars

(***************************************************************************)
(* Branch refs: commits, add_branch, delete_branch, update_ref with hash   *)
(* and symbolic refs, resolve_ref and log.                                 *)
(***************************************************************************)
RefWorkTrees == TreesUpTo({NameSeq[1]}, 1..RepoNumBlobs, RepoMaxNodes) \ {EmptyTree}

\* The refs a user may write into a branch: a stored commit, a branch, HEAD.
RefValues ==
    {HashRef(h) : h \in StoredCommits} \cup {branch_ref(b) : b \in BranchNames}
        \cup {SymRef("", "HEAD")}

\* The refs a user may ask to resolve.
RefQueries == {SymRef("", "HEAD")} \cup {branch_ref(b) : b \in BranchNames}

NextRefs ==
    \/ \E t \in RefWorkTrees : WriteWorkdir(t)
    \/ CommitWorkingDir
    \/ \E b \in BranchNames : AddBranch(b)
    \/ \E b \in BranchNames : DeleteBranch(b)
    \/ \E b \in BranchNames, r \in RefValues : UpdateRef(b, r)
    \/ \E tip \in LogTips : LogCall(tip)
    \/ \E r \in RefQueries : ResolveRefCall(r)
    \/ Return

SpecRefs == Init /\ [][NextRefs]_vars

(***************************************************************************)
(* Tags: create_tag, delete_tag and tags on the commits of one branch.     *)
(***************************************************************************)
RefTagNames == {TagNameSeq[i] : i \in 1..Len(TagNameSeq)}

NextTags ==
    \/ \E t \in RefWorkTrees : WriteWorkdir(t)
    \/ CommitWorkingDir
    \/ \E n \in RefTagNames, h \in StoredCommits \cup {BogusHash}, m \in {"", "message"} :
          CreateTag(n, h, "author", m)
    \/ \E n \in RefTagNames \cup {""} : DeleteTag(n)
    \/ TagsCall
    \/ Return

SpecTags == Init /\ [][NextTags]_vars

(***************************************************************************)
(* The object store under every operation of the facade that writes: one   *)
(* tag name, the working directory one file under either name.             *)
(***************************************************************************)
StoreWorkTrees == {t \in WorkTrees : \E n \in DOMAIN t : t[n].type = BLOB}

NextStore ==
    \/ \E t \in StoreWorkTrees : WriteWorkdir(t)
    \/ CommitWorkingDir
    \/ \E b \in BranchNames : AddBranch(b)
    \/ \E b \in BranchNames : DeleteBranch(b)
    \/ \E n \in TagNames, h \in StoredCommits : CreateTag(n, h, "author", "message")
    \/ \E n \in TagNames : DeleteTag(n)
    \/ \E h \in StoredCommits : Checkout(HashTarget(h))
    \/ ApplyMove
    \/ ApplyRemoval
    \/ ApplyWrite
    \/ CheckoutFinish
    \/ DiffCall(SymRef("", "HEAD"), WorkingDir)
    \/ SaveDir
    \/ Return

SpecStore == Init /\ [][NextStore]_vars

(***************************************************************************)
(* save_dir and build_fsTree on a directory that holds the metadata        *)
(* directory, at its root or at every depth, its entries listed in any     *)
(* order.                                                                  *)
(***************************************************************************)
RepoDirEntry == Dir([n \in {NameSeq[1]} |-> File(1)])

WithRepoDir(fs) ==
    [n \in DOMAIN fs \cup {REPO_DIR} |-> IF n = REPO_DIR THEN RepoDirEntry ELSE fs[n]]

RECURSIVE NestRepoDir(_)
NestRepoDir(fs) ==
    WithRepoDir([n \in DOMAIN fs |->
                    IF fs[n].kind = "dir" THEN Dir(NestRepoDir(fs[n].data)) ELSE fs[n]])

SaveDirs ==
    {WithRepoDir(Materialize(t)) : t \in Trees} \cup {NestRepoDir(Materialize(t)) : t \in Trees}

\* The orders in which iterdir() may list the entries of a directory.
IterOrders ==
    LET names == Names \cup {REPO_DIR}
    IN {order \in [1..Cardinality(names) -> names] :
           \A i \in DOMAIN order, j \in DOMAIN order : i # j => order[i] # order[j]}

InitSave ==
    /\ workdir \in SaveDirs
    /\ HEAD = branch_ref(DEFAULT_BRANCH)
    /\ heads = [b \in {DEFAULT_BRANCH} |-> None]
    /\ tags = EmptyTree
    /\ objects = {}
    /\ RepoIdle

\* Repository.save_dir(working_dir), the entries listed in the given order.
SaveDirRun(order) ==
    /\ pc = "idle"
    /\ LET run == save_dir_run(workdir, order)
       IN /\ objects' = objects \cup SavedByRun(run)
          /\ IF run.error = ""
             THEN Observe("save_dir", "ok", <<order>>, <<HashRef(run.hashes[<<>>]), run.trees>>)
             ELSE Observe("save_dir", run.error, <<order>>, NoValue)
    /\ UNCHANGED <<workdir, HEAD, heads, tags, ck>>

\* build_fsTree(working_dir, tree_hashes, repo_dir.name).
BuildTreeRun ==
    /\ pc = "idle"
    /\ LET run == build_fsTree_run(workdir)
       IN IF run.error = ""
          THEN Observe("build_fsTree", "ok", NoTarget,
                       <<HashRef(run.dir_hashes[<<>>]), run.built>>)
          ELSE Observe("build_fsTree", run.error, NoTarget, NoValue)
    /\ UNCHANGED <<workdir, HEAD, heads, tags, objects, ck>>

NextSave ==
    \/ \E order \in IterOrders : SaveDirRun(order)
    \/ BuildTreeRun
    \/ Return

SpecSave == InitSave /\ [][NextSave]_vars

(***************************************************************************)
(* diff and status between commits and a working directory that holds      *)
(* directories never saved.                                                *)
(***************************************************************************)
ReadTrees == TreesUpTo(Names, 1..RepoNumBlobs, RepoMaxNodes + 1)

NextRead ==
    \/ \E t \in ReadTrees : WriteWorkdir(t)
    \/ CommitWorkingDir
    \/ \E e1 \in DiffEndpoints, e2 \in DiffEndpoints : DiffCall(e1, e2)
    \/ StatusCall
    \/ Return

SpecRead == Init /\ [][NextRead]_vars

(***************************************************************************)
(* create_tag with every kind of argument it refuses: an empty name, a     *)
(* malformed hash, no author, no message, the hash of no object and the    *)
(* hash of a blob, a tree or a tag.                                        *)
(***************************************************************************)
NextTagArgs ==
    \/ \E t \in RefWorkTrees : WriteWorkdir(t)
    \/ CommitWorkingDir
    \/ \E n \in {"", TagNameSeq[1]}, h \in objects \cup {BogusHash, MalformedHash},
          a \in {"", "author"}, m \in {"", "message"} : CreateTag(n, h, a, m)
    \/ \E n \in {TagNameSeq[1]} : DeleteTag(n)
    \/ Return

SpecTagArgs == Init /\ [][NextTagArgs]_vars

(***************************************************************************)
(* Checkout targets: a name of the hash format that is also a branch and a *)
(* tag, plain names, paths under refs/ and hashes.                         *)
(***************************************************************************)
ResolveNames == {"rel"} \cup HashNames

ResolveTargets ==
    {HashTarget(h) : h \in StoredCommits \cup {BogusHash}}
        \cup {NameTarget(n) : n \in ResolveNames \cup {"ghost"}}
        \cup {PathTarget(HEADS_DIR, "rel"), PathTarget(TAGS_DIR, "rel")}

NextResolve ==
    \/ \E t \in WorkTrees : WriteWorkdir(t)
    \/ CommitWorkingDir
    \/ \E b \in ResolveNames : AddBranch(b)
    \/ \E n \in ResolveNames, h \in StoredCommits : CreateTag(n, h, "author", "message")
    \/ \E t \in ResolveTargets : Checkout(t)
    \/ ApplyMove
    \/ ApplyRemoval
    \/ ApplyWrite
    \/ CheckoutFinish
    \/ Return

SpecResolve == Init /\ [][NextResolve]_vars

(***************************************************************************)
(* What a caller can read off a forest.                                    *)
(***************************************************************************)
\* The nodes reachable from the roots through the children lists.
Reachable(forest) == {Flatten(forest)[i] : i \in 1..Len(Flatten(forest))}

\* How often a node is met when the forest is walked from its roots.
Occurrences(forest, node) ==
    Cardinality({i \in 1..Len(Flatten(forest)) : Flatten(forest)[i] = node})

IsMoved(forest, node) == forest[node].kind \in {MovedTo, MovedFrom}

\* An Added and a Removed node of the same content hash are both reachable.
AddedRemovedPair(forest) ==
    \E m \in Reachable(forest), n \in Reachable(forest) :
        /\ forest[m].kind = Added
        /\ forest[n].kind = Removed
        /\ forest[m].record.hash = forest[n].record.hash

\* A reachable moved node is linked to a reachable node of the other kind
\* which is linked back to it.
Paired(forest, node) ==
    LET other == forest[node].link
    IN /\ other # 0
       /\ other \in Reachable(forest)
       /\ IsMoved(forest, other)
       /\ forest[other].kind # forest[node].kind
       /\ forest[other].link = node

MovesPaired(forest) ==
    \A m \in Reachable(forest) :
        IsMoved(forest, m) => Paired(forest, m) /\ Occurrences(forest, m) = 1

\* A reachable node as path, kind and, for a moved node, the path of its
\* counterpart.
Entry(path, kind, other) == [path |-> path, kind |-> kind, other |-> other]

EntryOf(forest, node) ==
    Entry(relpath_for(forest, node), forest[node].kind,
          IF IsMoved(forest, node) THEN relpath_for(forest, forest[node].link) ELSE <<>>)

Entries(forest) == {EntryOf(forest, n) : n \in Reachable(forest)}

InverseKind(kind) ==
    IF kind = Added THEN Removed
    ELSE IF kind = Removed THEN Added
    ELSE IF kind = MovedTo THEN MovedFrom
    ELSE IF kind = MovedFrom THEN MovedTo
    ELSE kind

InverseEntries(entries) == {Entry(e.path, InverseKind(e.kind), e.other) : e \in entries}

\* A hash that two records of a tree share, at any depth.
RECURSIVE HashesOf(_)
HashesOf(t) ==
    UNION {{t[n].hash} \cup (IF t[n].type = TREE THEN HashesOf(LoadTree(t[n])) ELSE {})
           : n \in DOMAIN t}

DuplicateHash(t) == Cardinality(HashesOf(t)) < TreeSize(t)

DiffDone == diffIO.stage \in {"forward", "both"}

\* C5: a forest diff returns holds no Added node and Removed node of the same
\* content hash: every such pair was collapsed into a MovedFrom/MovedTo pair.
C5_NoAddedRemovedPair ==
    DiffDone => ~AddedRemovedPair(diffIO.forward.nodes)

\* C6: in a forest diff returns every reachable MovedFrom node is linked to a
\* reachable MovedTo node that is linked back to it, and the other way round,
\* and no moved node is met more than once.
C6_MovesPaired ==
    DiffDone => MovesPaired(diffIO.forward.nodes)

\* C7: diff(B, A) is the structural inverse of diff(A, B): the same paths, Added
\* for Removed, MovedFrom for MovedTo with the same counterpart path, Modified
\* for Modified.
C7_DiffInverse ==
    diffIO.stage = "both" =>
        Entries(diffIO.backward.nodes) = InverseEntries(Entries(diffIO.forward.nodes))

(***************************************************************************)
(* Checkout: what a caller observes when a call has ended.                 *)
(***************************************************************************)
CheckoutEnded == pc = "done" /\ result.op = "checkout"
CheckoutOk == CheckoutEnded /\ result.outcome = "ok"

\* The root tree of the commit a ref resolves to.
TreeOfRef(ref) == _resolve_target(ref).tree

\* The root tree a checkout target stands for.
TargetTree(target) == TreeOfRef(_resolve_checkout_target(target))

\* status() returns a forest that is not empty.
Dirty == status.error = "" /\ Roots(status.run.nodes) # <<>>

\* C1: a checkout that returns without error leaves the working directory
\* with exactly the paths, kinds and blob contents of the target commit's root
\* tree, and status() is empty afterwards.
C1_CheckoutMatchesTarget ==
    CheckoutOk =>
        /\ build_fsTree(workdir) = TargetTree(result.target)
        /\ status.error = ""
        /\ Roots(status.run.nodes) = <<>>

\* C2: a checkout called while status() is not empty raises RepositoryError and
\* leaves the working directory, HEAD, the refs and the object store as they
\* were, whatever the target.
C2_DirtyCheckoutRefused ==
    [][(pc = "idle" /\ Dirty /\ result'.op = "checkout") =>
           /\ result'.outcome = "RepositoryError"
           /\ pc' = "done"
           /\ workdir' = workdir
           /\ HEAD' = HEAD
           /\ heads' = heads
           /\ tags' = tags
           /\ objects' = objects]_vars

C2_Witness ==
    /\ CheckoutEnded
    /\ result.outcome = "RepositoryError"
    /\ Dirty
    /\ result.target[1] = "hash"
    /\ IsStoredCommit(result.target[2])
    /\ HashRef(result.target[2]) # head_commit

\* A name that is both a branch and a tag, the two at different commits.
Ambiguous(name) ==
    /\ name \in DOMAIN heads
    /\ name \in DOMAIN tags
    /\ IsHashRef(resolve_ref(branch_ref(name)))
    /\ IsHashRef(resolve_ref(tag_ref(name)))
    /\ resolve_ref(branch_ref(name)) # resolve_ref(tag_ref(name))

\* C3: a checkout of a name that is both a branch and a tag, the two at
\* different commits, takes the branch: head_commit() is the branch's commit and
\* the working directory holds the tree of the branch's commit.
C3_BranchBeforeTag ==
    \A n \in BranchNames \cap TagNames :
        (CheckoutOk /\ result.target = NameTarget(n) /\ Ambiguous(n)) =>
            /\ head_commit = resolve_ref(branch_ref(n))
            /\ build_fsTree(workdir) = TreeOfRef(branch_ref(n))

\* C4: after a successful checkout of a branch name HEAD is the symbolic ref of
\* that branch; of a commit hash, that hash as a HashRef; of a tag name, the
\* HashRef of the commit stored in the tag object, not the tag object's hash.
C4_HeadAfterCheckout ==
    CheckoutOk =>
        LET target == result.target
        IN IF target[1] = "hash" THEN HEAD = HashRef(target[2])
           ELSE IF target[1] = "name" /\ target[2] \in DOMAIN heads
           THEN HEAD = SymRef(HEADS_DIR, target[2])
           ELSE LET name == IF target[1] = "name" THEN target[2] ELSE target[3]
                    tag_object_hash == tags[name][2]
                IN /\ HEAD = HashRef(tag_object_hash[2].commit_hash)
                   /\ HEAD # HashRef(tag_object_hash)

C4_Witness ==
    /\ CheckoutOk
    /\ result.target = NameTarget("rel")
    /\ "rel" \notin DOMAIN heads
    /\ "rel" \in DOMAIN tags
    /\ IsHashRef(HEAD)
    /\ IsStoredCommit(HEAD[2])
    /\ heads[DEFAULT_BRANCH] # HEAD

\* C8: diff(X, Y) returns the empty forest whenever X and Y resolve to the same
\* root tree hash, and no level of the trees is walked.
C8_SelfDiffEmpty ==
    (pc = "done" /\ result.op = "diff" /\ result.outcome = "ok"
        /\ TreeHash(_resolve_target(result.target[1]).tree)
             = TreeHash(_resolve_target(result.target[2]).tree)) =>
        /\ Roots(diffIO.forward.nodes) = <<>>
        /\ diffIO.forward.levels = 0

C8_Witness ==
    /\ pc = "done"
    /\ result.op = "diff"
    /\ result.outcome = "ok"
    /\ result.target = <<SymRef("", "HEAD"), WorkingDir>>
    /\ build_fsTree(workdir) # EmptyTree
    /\ TreeOfRef(head_commit) = build_fsTree(workdir)
    /\ Roots(diffIO.forward.nodes) = <<>>

\* The records of a tree with their paths, at every depth.
RECURSIVE PathsOf(_)
PathsOf(t) ==
    UNION {{<< <<n>>, t[n] >>}
             \cup (IF t[n].type = TREE
                   THEN {<< <<n>> \o pr[1], pr[2] >> : pr \in PathsOf(LoadTree(t[n]))}
                   ELSE {})
           : n \in DOMAIN t}

BlobsOf(t) == {pr \in PathsOf(t) : pr[2].type = BLOB}

\* The directories of a tree above a path.
DirsAbove(path) == {SubSeq(path, 1, k) : k \in 1..(Len(path) - 1)}

\* The blob at path p of tree c1 is at a different path q of tree c2, and a
\* directory of c1 that contains p is absent from c2.
MovedOut(c1, c2, p, q) ==
    /\ p # q
    /\ record_at_path(c1, p).type = BLOB
    /\ record_at_path(c2, q).type = BLOB
    /\ record_at_path(c1, p).hash = record_at_path(c2, q).hash
    /\ \E d \in DirsAbove(p) : record_at_path(c2, d) = NoRecord

\* The paths of c2 that the blob at p of c1 is moved out to.
MovedOutTo(c1, c2, p) ==
    {q \in {pr[1] : pr \in BlobsOf(c2)} : MovedOut(c1, c2, p, q)}

MovedOutFrom(c1, c2) ==
    {p \in {pr[1] : pr \in BlobsOf(c1)} : MovedOutTo(c1, c2, p) # {}}

\* The file at a path of the working directory holds the content of a blob.
HoldsBlob(fs, path, hash) == FsLookup(fs, path) = File(read_object_bytes(hash))

\* C10: when a blob is at p in the commit checked out and at another path q in
\* the target while a directory containing p is absent from the target, the
\* applier ends without error and after each of its steps the content of the
\* blob is at p or at q in the working directory.
C10_MoveOutOfRemovedDir ==
    [][pc = "apply" =>
          LET c1 == TreeOfRef(head_commit)
              c2 == ck.target_tree
          IN \A p \in MovedOutFrom(c1, c2) :
                 LET hash == record_at_path(c1, p).hash
                 IN /\ \/ HoldsBlob(workdir', p, hash)
                       \/ \E q \in MovedOutTo(c1, c2, p) : HoldsBlob(workdir', q, hash)
                    /\ pc' = "done" => result'.outcome = "ok"]_vars

(***************************************************************************)
(* The order of the filesystem events of an applier run.                   *)
(***************************************************************************)
IsRemovalEvent(e) == e[2] \in {"rmtree", "unlink"}
IsCreationEvent(e) == e[2] \in {"mkdir", "write"}

\* No event of the second kind of step comes before one of the first kind.
StepsBefore(steps, first, second) ==
    \A i \in 1..Len(steps), j \in 1..Len(steps) :
        i < j => ~(steps[i][1] = second /\ steps[j][1] = first)

AnApplierRan == result.op \in {"checkout", "apply_diffs"}

ApplierEnded == pc = "done" /\ result.op \in {"checkout", "apply_diffs"}

\* The root tree of the commit the working directory held before the call.
SourceTree == TreeOfRef(branch_ref(DEFAULT_BRANCH))

\* The names that are a BLOB in one tree and a TREE with records in the other.
TypeSwapped(c1, c2) ==
    {n \in DOMAIN c1 \cap DOMAIN c2 :
        \/ c1[n].type = BLOB /\ c2[n].type = TREE /\ LoadTree(c2[n]) # EmptyTree
        \/ c1[n].type = TREE /\ c2[n].type = BLOB /\ LoadTree(c1[n]) # EmptyTree}

\* C11: when a name is a BLOB in the commit checked out and a TREE with content
\* in the target, or the other way round, the checkout succeeds and leaves the
\* name with the kind and the content it has in the target.
C11_TypeSwap ==
    ApplierEnded =>
        LET c2 == TargetTree(result.target)
        IN \A n \in TypeSwapped(SourceTree, c2) :
               /\ result.outcome = "ok"
               /\ n \in DOMAIN workdir
               /\ workdir[n] = Materialize(c2)[n]

(***************************************************************************)
(* commit_working_dir.                                                     *)
(***************************************************************************)
\* The step is a call of commit_working_dir that returns a commit ref.
Committed == pc = "idle" /\ result'.op = "commit" /\ result'.outcome = "ok"

\* The hash of the commit a ref resolves to, NoHash for none.
CommitHashOf(ref) == IF IsHashRef(resolve_ref(ref)) THEN resolve_ref(ref)[2] ELSE NoHash

\* C12: when HEAD is a symbolic ref to a branch, a successful commit_working_dir
\* stores a commit whose parent is the commit the branch resolved to before the
\* call (none for an empty branch) and writes the new commit's hash into that
\* branch; HEAD, the other branches and the tags stay as they were.
C12_CommitMovesBranch ==
    [][(Committed /\ IsSymRef(HEAD)) =>
           LET commit_ref == result'.value
           IN /\ IsHashRef(commit_ref)
              /\ commit_ref[2] \in objects'
              /\ load_commit(commit_ref).parent = CommitHashOf(HEAD)
              /\ heads'[HEAD[3]] = commit_ref
              /\ HEAD' = HEAD
              /\ DOMAIN heads' = DOMAIN heads
              /\ \A b \in DOMAIN heads \ {HEAD[3]} : heads'[b] = heads[b]
              /\ tags' = tags]_vars

\* A second commit on a branch, made while another branch holds a ref.
C12_Witness ==
    /\ pc = "done"
    /\ result.op = "commit"
    /\ result.outcome = "ok"
    /\ IsSymRef(HEAD)
    /\ heads[HEAD[3]] = result.value
    /\ load_commit(result.value).parent # NoHash
    /\ \E b \in DOMAIN heads \ {HEAD[3]} : heads[b] # None /\ heads[b] # result.value

\* C13: with a detached HEAD a successful commit_working_dir stores a commit
\* whose parent is the detached commit and returns its hash, while HEAD, every
\* branch and every tag stay as they were, so that head_commit() is still the
\* commit HEAD held before the call.
C13_DetachedCommit ==
    [][(Committed /\ IsHashRef(HEAD)) =>
           LET commit_ref == result'.value
           IN /\ IsHashRef(commit_ref)
              /\ commit_ref[2] \in objects'
              /\ load_commit(commit_ref).parent = HEAD[2]
              /\ HEAD' = HEAD
              /\ heads' = heads
              /\ tags' = tags
              /\ head_commit' = head_commit
              /\ head_commit' = HEAD]_vars

\* A commit of a changed working directory made on a detached HEAD.
C13_Witness ==
    /\ pc = "done"
    /\ result.op = "commit"
    /\ result.outcome = "ok"
    /\ IsHashRef(HEAD)
    /\ result.value # HEAD
    /\ load_commit(result.value).parent = HEAD[2]
    /\ load_commit(result.value).tree_hash # load_commit(HEAD).tree_hash

\* status() returns the empty list.
StatusEmpty == status.error = "" /\ Roots(status.run.nodes) = <<>>

\* commit_working_dir has just returned a commit ref.
AfterCommit == pc = "done" /\ result.op = "commit" /\ result.outcome = "ok"

\* C14 as stated: right after any successful commit_working_dir status() is
\* empty, whether HEAD is symbolic or detached.
C14_StatusEmptyAfterCommit == AfterCommit => StatusEmpty

\* C14: right after a successful commit_working_dir made while HEAD is a
\* symbolic ref, status() is empty.
C14_StatusEmptyAfterBranchCommit == (AfterCommit /\ IsSymRef(HEAD)) => StatusEmpty

\* A commit on a branch of a working directory that differed from the
\* branch's previous commit.
C14_Witness ==
    /\ AfterCommit
    /\ IsSymRef(HEAD)
    /\ StatusEmpty
    /\ load_commit(result.value).parent # NoHash
    /\ load_commit(HashRef(load_commit(result.value).parent)).tree_hash
           # load_commit(result.value).tree_hash

(***************************************************************************)
(* Tags.                                                                   *)
(***************************************************************************)
\* The step is a call of the operation op.
Called(op) == pc = "idle" /\ result'.op = op

\* create_tag's arguments other than the name pass every check.
ValidTagArgs(args) == args[3] # "" /\ args[4] # "" /\ IsStoredCommit(args[2])

\* C15: create_tag with the name of an existing tag ref and otherwise valid
\* arguments raises TagExistsError, and no call of create_tag changes a tag ref
\* that already exists: it points at the same tag object afterwards.
C15_TagNotOverwritten ==
    [][Called("create_tag") =>
           /\ (result'.target[1] \in DOMAIN tags /\ ValidTagArgs(result'.target))
                  => (result'.outcome = "TagExistsError" /\ tags' = tags)
           /\ \A n \in DOMAIN tags : n \in DOMAIN tags' /\ tags'[n] = tags[n]]_vars

\* create_tag refused for a name whose tag holds another commit than the one
\* given.
C15_Witness ==
    /\ pc = "done"
    /\ result.op = "create_tag"
    /\ result.outcome = "TagExistsError"
    /\ result.target[1] \in DOMAIN tags
    /\ load_tag(tags[result.target[1]]).commit_hash # result.target[2]

\* The Tags that tags() returns, as a set, and their names.
ListedTags == {list_tags[i] : i \in DOMAIN list_tags}
ListedNames == {t.name : t \in ListedTags}

\* C16: tags() is empty after init and holds one Tag per name; a successful
\* create_tag adds exactly the Tag of the name, commit hash, author and message
\* given, for a name not listed before; a successful delete_tag removes exactly
\* the Tag of its name; delete_tag of a name without a tag ref raises
\* TagNotFound; a failed create_tag or delete_tag, and every other operation,
\* leaves the listed Tags as they were.
C16_TagsListed ==
    /\ list_tags = <<>>
    /\ [][/\ Len(list_tags') = Cardinality(ListedNames')
          /\ Called("tags") => result'.value = list_tags
          /\ IF Called("create_tag") /\ result'.outcome = "ok"
             THEN LET args == result'.target
                  IN /\ args[1] \notin ListedNames
                     /\ ListedTags' = ListedTags \cup
                            {Tag(args[1], args[2], args[3], args[4])}
             ELSE IF Called("delete_tag") /\ result'.outcome = "ok"
             THEN /\ result'.target[1] \in ListedNames
                  /\ ListedTags' = {t \in ListedTags : t.name # result'.target[1]}
             ELSE ListedTags' = ListedTags
          /\ (Called("delete_tag") /\ result'.target[1] # ""
                  /\ result'.target[1] \notin ListedNames)
                 => result'.outcome = "TagNotFound"]_vars

\* tags() returns one tag after two were created on different commits and
\* one of them deleted.
C16_Witness ==
    /\ pc = "done"
    /\ result.op = "tags"
    /\ Len(result.value) = 1
    /\ Cardinality({h \in objects : h[1] = "tag"}) = 2
    /\ \E h \in objects :
           /\ h[1] = "tag"
           /\ h[2].name # result.value[1].name
           /\ h[2].commit_hash # result.value[1].commit_hash

(***************************************************************************)
(* log and resolve_ref.                                                    *)
(***************************************************************************)
\* The ref log starts from for a given tip.
TipRef(tip) == IF tip = None THEN head_ref ELSE tip

\* C17: a call of log that ends normally yields stored commits, first the
\* commit the tip resolves to (nothing for an empty branch), then the parent of
\* each commit yielded, up to a commit without parent, none of them twice; and
\* a successful commit on a branch makes log yield the new commit followed by
\* what it yielded before, so n commits are yielded newest first.
C17_LogFollowsParents ==
    [][/\ (Called("log") /\ result'.outcome = "ok") =>
              LET entries == result'.value
                  current_hash == resolve_ref(TipRef(result'.target[1]))
              IN /\ current_hash = None => entries = <<>>
                 /\ current_hash # None => (Len(entries) >= 1 /\ entries[1] = current_hash)
                 /\ \A i \in 1..Len(entries) : IsStoredCommit(entries[i][2])
                 /\ \A i \in 1..(Len(entries) - 1) :
                        entries[i + 1] = HashRef(load_commit(entries[i]).parent)
                 /\ entries # <<>> => load_commit(entries[Len(entries)]).parent = NoHash
                 /\ \A i, j \in 1..Len(entries) : i # j => entries[i] # entries[j]
       /\ (Committed /\ IsSymRef(HEAD)) =>
              /\ log(HEAD).error = ""
              /\ log(HEAD)'.error = ""
              /\ log(HEAD)'.entries = <<result'.value>> \o log(HEAD).entries]_vars

\* log of a branch that points at another branch yields every commit made.
C17_Witness ==
    /\ pc = "done"
    /\ result.op = "log"
    /\ result.outcome = "ok"
    /\ Len(result.value) = MaxCommits
    /\ IsSymRef(result.target[1])
    /\ IsSymRef(read_ref(result.target[1][2], result.target[1][3]))

\* The chain of symbolic refs that starts at ref comes back to a ref it has
\* passed.
RECURSIVE ChainCycles(_, _)
ChainCycles(ref, seen) ==
    IF ~IsSymRef(ref) THEN FALSE
    ELSE IF ref \in seen THEN TRUE
    ELSE IF ref[3] = "HEAD" THEN ChainCycles(HEAD, seen \cup {ref})
    ELSE IF ~RefFileExists(ref[2], ref[3]) THEN FALSE
    ELSE ChainCycles(read_ref(ref[2], ref[3]), seen \cup {ref})

\* C18: resolve_ref of a symbolic ref whose chain contains a cycle reports a
\* reference error.
C18_CycleReported ==
    (/\ pc = "done"
     /\ result.op = "resolve_ref"
     /\ ChainCycles(result.target[1], {}))
        => result.outcome = "RefError"

(***************************************************************************)
(* The object store.                                                       *)
(***************************************************************************)
\* The objects a successful call writes: the blobs and trees of the working
\* directory for save_dir, those and the commit for commit_working_dir, the
\* tag object for create_tag.
Written ==
    IF result'.op = "save_dir" THEN SavedObjects(workdir)
    ELSE IF result'.op = "commit" THEN SavedObjects(workdir) \cup {result'.value[2]}
    ELSE IF result'.op = "create_tag"
    THEN {TagHash(Tag(result'.target[1], result'.target[2],
                      result'.target[3], result'.target[4]))}
    ELSE {}

\* C19: every step of save_dir, commit_working_dir, create_tag, delete_tag,
\* delete_branch, diff and checkout keeps every stored object, and a call that
\* writes only objects already stored leaves the store as it was.
C19_StoreOnlyGrows ==
    [][/\ objects \subseteq objects'
       /\ (pc = "idle" /\ pc' = "done" /\ result'.outcome = "ok"
               /\ Written \subseteq objects)
              => objects' = objects]_vars

\* A tag created after another of its name was deleted, in a store that holds
\* blobs: the object of the deleted tag is still stored.
C19_Witness ==
    /\ pc = "done"
    /\ result.op = "create_tag"
    /\ result.outcome = "ok"
    /\ Cardinality({h \in objects : h[1] = "tag"}) = 2
    /\ Cardinality(DOMAIN tags) = 1
    /\ \E h \in objects : h[1] = "BLOB"

(***************************************************************************)
(* Rename of a directory.                                                  *)
(***************************************************************************)
\* B is A with the directory old renamed to new, its content hash kept and
\* every other record as it was.
RenamedAt(A, B, old, new) ==
    /\ old \in DOMAIN A
    /\ new \notin DOMAIN A
    /\ A[old].type = TREE
    /\ DOMAIN B = (DOMAIN A \ {old}) \cup {new}
    /\ B[new] = TreeRecord(TREE, A[old].hash, new)
    /\ \A n \in DOMAIN A \ {old} : B[n] = A[n]

\* A and B differ in the directory d only.
DiffersAt(A, B, d) ==
    /\ DOMAIN A = DOMAIN B
    /\ d \in DOMAIN A
    /\ A[d].type = TREE
    /\ B[d].type = TREE
    /\ A[d].hash # B[d].hash
    /\ \A n \in DOMAIN A \ {d} : B[n] = A[n]

\* The pairs <<old path, new path>> such that the only change from A to B is
\* the rename of the directory at the old path to the new path.
RECURSIVE Renames(_, _)
Renames(A, B) ==
    {<<<<old>>, <<new>>>> : old \in {o \in DOMAIN A : \E n \in DOMAIN B : RenamedAt(A, B, o, n)},
                            new \in {n \in DOMAIN B : \E o \in DOMAIN A : RenamedAt(A, B, o, n)}}
    \cup UNION {{<<<<d>> \o p[1], <<d>> \o p[2]>> : p \in Renames(LoadTree(A[d]), LoadTree(B[d]))}
                : d \in {x \in DOMAIN A : DiffersAt(A, B, x)}}

KindCount(forest, kind) == Cardinality({n \in Reachable(forest) : forest[n].kind = kind})

\* C20 as stated: when the only change between the two trees is the rename of
\* a directory, the forest holds one MovedTo node at the old path and one
\* MovedFrom node at the new path, linked to each other, and no Added, Removed
\* or Modified node.
C20_DirectoryRename ==
    DiffDone =>
        \A p \in Renames(diffIO.tree1, diffIO.tree2) :
            LET forest == diffIO.forward.nodes
            IN /\ Entry(p[1], MovedTo, p[2]) \in Entries(forest)
               /\ Entry(p[2], MovedFrom, p[1]) \in Entries(forest)
               /\ KindCount(forest, MovedTo) = 1
               /\ KindCount(forest, MovedFrom) = 1
               /\ MovesPaired(forest)
               /\ KindCount(forest, Added) = 0
               /\ KindCount(forest, Removed) = 0
               /\ KindCount(forest, Modified) = 0

\* C20: when the only change between the two trees is the rename of a
\* directory, the forest holds exactly a MovedTo node at the old path and a
\* MovedFrom node at the new path, linked to each other, and a Modified node
\* at each directory above the renamed one; no Added and no Removed node is
\* reachable, and nothing lies below the two move nodes.
C20_DirectoryRenameBelowModified ==
    DiffDone =>
        \A p \in Renames(diffIO.tree1, diffIO.tree2) :
            LET forest == diffIO.forward.nodes
            IN /\ Entries(forest) =
                      {Entry(p[1], MovedTo, p[2]), Entry(p[2], MovedFrom, p[1])}
                          \cup {Entry(d, Modified, <<>>) : d \in DirsAbove(p[1])}
               /\ Cardinality(Reachable(forest)) = Len(p[1]) + 1
               /\ MovesPaired(forest)
               /\ \A n \in Reachable(forest) :
                      IsMoved(forest, n) => forest[n].children = <<>>

\* The diff of a tree and the same tree with a directory that holds a file
\* renamed, one level below the root.
C20_Witness ==
    /\ DiffDone
    /\ \E p \in Renames(diffIO.tree1, diffIO.tree2) :
           /\ Len(p[1]) = 2
           /\ LoadTree(LoadTree(diffIO.tree1[p[1][1]])[p[1][2]]) # EmptyTree
           /\ KindCount(diffIO.forward.nodes, Modified) = 1
           /\ KindCount(diffIO.forward.nodes, MovedTo) = 1

(***************************************************************************)
(* init and delete_repo: a working directory with or without repository.   *)
(***************************************************************************)
\* Repository.exists(): the repository directory is there.  It holds the
\* HEAD file from init on, and nothing when it was never made or deleted.
exists == HEAD # None

\* An init that points HEAD at the branch of the default name.
init_head_default(default_branch) == branch_ref(DEFAULT_BRANCH)

\* "write_ref(self.head_file(), branch_ref(default_branch))"
init_head(default_branch) == branch_ref(default_branch)

\* Repository.init(default_branch): mkdir of the repository directory raises
\* when it exists; otherwise the directories, the empty branch and HEAD.
InitCall(default_branch) ==
    /\ pc = "idle"
    /\ IF exists
       THEN /\ Observe("init", "FileExistsError", <<default_branch>>, NoValue)
            /\ UNCHANGED <<HEAD, heads, tags, objects>>
       ELSE /\ objects' = {}
            /\ heads' = [b \in {default_branch} |-> None]
            /\ tags' = EmptyTree
            /\ HEAD' = init_head(default_branch)
            /\ Observe("init", "ok", <<default_branch>>, NoValue)
    /\ UNCHANGED <<workdir, ck>>

\* Repository.delete_repo().
DeleteRepo ==
    /\ pc = "idle"
    /\ IF ~exists
       THEN /\ Observe("delete_repo", "RepositoryNotFoundError", NoTarget, NoValue)
            /\ UNCHANGED <<HEAD, heads, tags, objects>>
       ELSE /\ objects' = {}
            /\ heads' = EmptyTree
            /\ tags' = EmptyTree
            /\ HEAD' = None
            /\ Observe("delete_repo", "ok", NoTarget, NoValue)
    /\ UNCHANGED <<workdir, ck>>

\* A working directory in which init was never called.
InitNoRepo ==
    /\ workdir = EmptyDir
    /\ HEAD = None
    /\ heads = EmptyTree
    /\ tags = EmptyTree
    /\ objects = {}
    /\ RepoIdle

NextInit ==
    \/ \E t \in RefWorkTrees : WriteWorkdir(t)
    \/ \E b \in BranchNames : InitCall(b)
    \/ DeleteRepo
    \/ exists /\ CommitWorkingDir
    \/ \E b \in BranchNames : exists /\ AddBranch(b)
    \/ \E n \in TagNames, h \in StoredCommits : exists /\ CreateTag(n, h, "author", "message")
    \/ exists /\ TagsCall
    \/ Return

SpecInit == InitNoRepo /\ [][NextInit]_vars

\* C21: init(default_branch) on a directory without repository leaves HEAD the
\* symbolic ref heads/<default_branch>, that branch existing and empty, so that
\* head_commit() is None, no other branch and no tag; init on a directory
\* that has a repository fails and changes nothing.
C21_InitLayout ==
    [][Called("init") =>
           LET default_branch == result'.target[1]
           IN IF ~exists
              THEN /\ result'.outcome = "ok"
                   /\ HEAD' = SymRef(HEADS_DIR, default_branch)
                   /\ branches' = {default_branch}
                   /\ heads'[default_branch] = None
                   /\ head_commit' = None
                   /\ list_tags' = <<>>
              ELSE /\ result'.outcome \notin {"", "ok"}
                   /\ UNCHANGED <<workdir, HEAD, heads, tags, objects>>]_vars

\* init with another default branch than main, in a directory whose former
\* repository was deleted.
C21_Witness ==
    /\ pc = "done"
    /\ result.op = "init"
    /\ result.outcome = "ok"
    /\ result.target[1] # DEFAULT_BRANCH
    /\ HEAD = branch_ref(result.target[1])
    /\ workdir # EmptyDir

(***************************************************************************)
(* Checkout between two commits that differ by two moves at least.         *)
(***************************************************************************)
\* The trees of at most MaxNodes records that hold a file of a third name
\* at the root.
SmallTrees == TreesUpTo(Names, Blobs, MaxNodes - 1)

WithThird(t, c) ==
    [m \in DOMAIN t \cup {"c"} |-> IF m = "c" THEN TreeRecord(BLOB, BlobHash(c), "c") ELSE t[m]]

MoveTrees == {WithThird(t, c) : t \in SmallTrees, c \in Blobs}

\* The MovedFrom nodes diff made.
MoveCount(forest) == Cardinality({n \in 1..Len(forest) : forest[n].kind = MovedFrom})

InitMoves ==
    \E A \in Trees, B \in MoveTrees :
        LET c1 == CommitOf(A, NoHash)
            c2 == CommitOf(B, c1)
        IN /\ MoveCount(Diff(B, A)) >= 2
           /\ workdir = Materialize(B)
           /\ HEAD = branch_ref(DEFAULT_BRANCH)
           /\ heads = [b \in {DEFAULT_BRANCH} |-> HashRef(c2)]
           /\ tags = EmptyTree
           /\ objects = SavedObjects(Materialize(A)) \cup SavedObjects(Materialize(B))
                            \cup {c1, c2}
           /\ RepoIdle

NextMoves ==
    \/ \E n \in DOMAIN workdir : RemoveEntry(n)
    \/ \E h \in StoredCommits : Checkout(HashTarget(h))
    \/ \E h \in StoredCommits : ApplyDiffs(h)
    \/ \E h \in StoredCommits : ApplyDiffsDirty(h)
    \/ ApplyMove
    \/ ApplyRemoval
    \/ ApplyWrite
    \/ CheckoutFinish

SpecMoves == InitMoves /\ [][NextMoves]_vars

(***************************************************************************)
(* The order of the steps within a bucket.                                 *)
(***************************************************************************)
\* The filesystem calls of an applier run are kept as <<bucket, call, path>>,
\* a rename as <<bucket, "rename", destination, source>>.
RenameCalls == SelectSeq(oplog, LAMBDA e : e[2] = "rename")

\* C22: each applier performs the moves in ascending order of the depth of
\* the destination path: a move is never performed after one whose destination
\* is deeper.
C22_MovesByDestinationDepth ==
    AnApplierRan =>
        \A i \in 1..Len(RenameCalls), j \in 1..Len(RenameCalls) :
            i < j => Len(RenameCalls[i][3]) <= Len(RenameCalls[j][3])

\* A repository of two commits, the second checked out, where going back to
\* the first removes two paths or more.
InitRemovals ==
    \E A \in SmallTrees, B \in Trees :
        LET c1 == CommitOf(A, NoHash)
            c2 == CommitOf(B, c1)
        IN /\ KindCount(Diff(B, A), Removed) >= 2
           /\ workdir = Materialize(B)
           /\ HEAD = branch_ref(DEFAULT_BRANCH)
           /\ heads = [b \in {DEFAULT_BRANCH} |-> HashRef(c2)]
           /\ tags = EmptyTree
           /\ objects = SavedObjects(Materialize(A)) \cup SavedObjects(Materialize(B))
                            \cup {c1, c2}
           /\ RepoIdle

SpecRemovals == InitRemovals /\ [][NextMoves]_vars

\* The calls of the removals of an applier run, and the paths of the Removed
\* nodes of a forest.
RemoveCalls == SelectSeq(oplog, LAMBDA e : e[1] = "remove")
RemovedPaths(forest) ==
    {relpath_for(forest, n) : n \in {m \in Reachable(forest) : forest[m].kind = Removed}}

\* The standalone applier called on the forest of diff(HEAD, target).
RemovalsDone(removed, called, fs, fs_after, outcome, clean) ==
    /\ outcome # "RemoveError"
    /\ called \subseteq removed
    /\ \A path \in removed : ~FsExists(fs, path) => path \notin called
    /\ outcome = "ok" => \A path \in removed : ~FsExists(fs_after, path)
    /\ outcome = "ok" /\ clean => called = removed

RemovalsOfApplyDiffs ==
    Called("apply_diffs") =>
        RemovalsDone(RemovedPaths(diff(head_commit, HashRef(result'.target[2])).run.nodes),
                     {oplog'[i][3] : i \in {k \in 1..Len(oplog') : oplog'[k][1] = "remove"}},
                     workdir, workdir', result'.outcome, is_clean(status))

\* One removal of the applier of the facade.
RemovalOfCheckout ==
    pc = "apply" /\ NextBucket(ck.moves, ck.removals, ck.writes) = "remove" =>
        LET path == Head(ck.removals)
        IN /\ \A i \in 1..Len(ck.removals) : Len(path) >= Len(ck.removals[i])
           /\ pc' = "apply"
           /\ ck'.removals = Tail(ck.removals)
           /\ ~FsExists(workdir', path)
           /\ ~FsExists(workdir, path) => workdir' = workdir /\ oplog' = oplog

\* C23: each applier processes the Removed nodes in non-increasing order of
\* path depth, so every Removed descendant of a Removed directory is handled
\* before the directory itself; a Removed node whose path no longer exists is
\* skipped without an error and without aborting the remaining removals.
C23_RemovalsDeepestFirst ==
    /\ [](AnApplierRan =>
            \A i \in 1..Len(RemoveCalls), j \in 1..Len(RemoveCalls) :
                i < j => Len(RemoveCalls[i][3]) >= Len(RemoveCalls[j][3]))
    /\ [][RemovalsOfApplyDiffs /\ RemovalOfCheckout]_vars

\* A removal was skipped for a path the user had deleted, a removal after it
\* was performed and the run ended without an error.
C23_Witness ==
    /\ pc = "done"
    /\ result.op = "apply_diffs"
    /\ result.outcome = "ok"
    /\ \E path \in RemovedPaths(diff(head_commit, HashRef(result.target[2])).run.nodes) :
          /\ \A i \in 1..Len(RemoveCalls) : RemoveCalls[i][3] # path
          /\ \E i \in 1..Len(RemoveCalls) : Len(RemoveCalls[i][3]) <= Len(path)

\* C24 as stated: in the write phase every Added or Modified node is processed
\* after its parent node in the forest, and no write fails because a parent
\* directory is missing: the writes the facade still has to perform never hold
\* a path before the path of its parent, and no applier run ends with the
\* error of a missing directory.
C24_ParentsBeforeChildren ==
    /\ pc = "apply" =>
          \A i \in 1..Len(ck.writes), j \in 1..Len(ck.writes) :
              i < j => ck.writes[j].path # Parent(ck.writes[i].path)
    /\ AnApplierRan => result.outcome # "FileNotFoundError"
    /\ AnApplierRan =>
          \A k \in 1..Len(oplog) :
              oplog[k][1] = "write" => FsIsDir(workdir, Parent(oplog[k][3]))

\* The standalone applier stopped by a move whose source is missing: the
\* moves before it are performed and nothing else.
StoppedAt(forest, moves, done, fs, fs_after, log_after) ==
    LET before == MovesLoop(forest, Run(fs, <<>>, ""), SubSeq(moves, 1, done))
    IN /\ done < Len(moves)
       /\ before.error = ""
       /\ ~FsExists(before.fs, get_moved_to_path(forest, forest[moves[done + 1][1]].link))
       /\ fs_after = before.fs
       /\ \A k \in 1..Len(log_after) : log_after[k][1] = "move"

StoppedIn(forest, fs, fs_after, log_after) ==
    StoppedAt(forest, sort_moves(forest, traverse_post_order(forest).moves),
              Len(SelectSeq(log_after, LAMBDA e : e[2] = "rename")),
              fs, fs_after, log_after)

MissingSourceOfApplyDiffs ==
    Called("apply_diffs") /\ result'.outcome = "MissingMovedFromError" =>
        StoppedIn(diff(head_commit, HashRef(result'.target[2])).run.nodes,
                  workdir, workdir', oplog')

\* The applier of the facade at a move whose source is missing.
MissingSourceOfCheckout ==
    /\ pc = "apply"
    /\ NextBucket(ck.moves, ck.removals, ck.writes) = "move"
    /\ ~FsExists(workdir, Head(ck.moves).src)
    => /\ pc' = "done"
       /\ result'.outcome = "RepositoryError"
       /\ UNCHANGED <<workdir, oplog, HEAD, heads>>

\* C25: when the source path of a move does not exist at the time the move is
\* processed, the applier raises the error of a missing source at once: no
\* later move, removal or write is executed, and the moves already performed
\* stay on disk.
C25_MissingSourceAborts ==
    [][MissingSourceOfApplyDiffs /\ MissingSourceOfCheckout]_vars

\* A run ended on a missing source after a move that is still on disk, with
\* a path left that the forest removes.
C25_Witness ==
    /\ pc = "done"
    /\ result.op = "apply_diffs"
    /\ result.outcome = "MissingMovedFromError"
    /\ RenameCalls # <<>>
    /\ FsExists(workdir, RenameCalls[1][3])
    /\ \E path \in RemovedPaths(diff(head_commit, HashRef(result.target[2])).run.nodes) :
          FsExists(workdir, path)

\* The paths of the Modified nodes of a forest whose record is a BLOB.
ModifiedBlobs(forest) ==
    {relpath_for(forest, n) :
        n \in {m \in Reachable(forest) :
                  forest[m].kind = Modified /\ forest[m].record.type = BLOB}}

\* The standalone applier on a forest with the Modified BLOB paths modified:
\* target is the directory that holds the target tree.
ModifiedWritten(modified, target, fs, fs_after, outcome) ==
    LET unresolved == {path \in modified : FsLookup(target, path).kind # "file"}
    IN /\ outcome = "ok" =>
             \A path \in modified :
                 /\ FsLookup(fs_after, path) = FsLookup(target, path)
                 /\ FsLookup(fs_after, path) # FsLookup(fs, path)
       /\ unresolved # {} => outcome # "ok"
       /\ outcome = "TraversalError" =>
             \E path \in unresolved : FsLookup(fs_after, path) = FsLookup(fs, path)

ModifiedBlobOfApplyDiffs ==
    Called("apply_diffs") =>
        ModifiedWritten(ModifiedBlobs(diff(head_commit, HashRef(result'.target[2])).run.nodes),
                        Materialize(TreeOfRef(HashRef(result'.target[2]))),
                        workdir, workdir', result'.outcome)

\* One write of a Modified BLOB node by the applier of the facade.
ModifiedBlobOfCheckout ==
    /\ pc = "apply"
    /\ NextBucket(ck.moves, ck.removals, ck.writes) = "write"
    /\ Head(ck.writes).op = "modify"
    => LET path == Head(ck.writes).path
           expected == FsLookup(Materialize(ck.target_tree), path)
       IN IF expected.kind = "file"
          THEN /\ pc' = "apply"
               /\ FsLookup(workdir', path) = expected
               /\ expected # File(read_object_bytes(Head(ck.writes).hash))
          ELSE /\ pc' = "done"
               /\ result'.outcome = "RepositoryError"
               /\ workdir' = workdir

TwoMovesOfOneHash(forest) ==
    \E i \in Reachable(forest), j \in Reachable(forest) :
        /\ i # j
        /\ forest[i].kind = MovedFrom
        /\ forest[j].kind = MovedFrom
        /\ forest[i].record.hash = forest[j].record.hash

\* The nodes of the heap are in the order the walk made them, and an Added
\* (Removed) node is made together with its entry in potentially_added
\* (potentially_removed): a hash is a key again after its match when such a
\* node follows a moved node of the same hash.
KeyedAfterMatch(nodes) ==
    \E i \in 1..Len(nodes), k \in 1..Len(nodes) :
        /\ IsMoved(nodes, i)
        /\ k > i
        /\ nodes[k].kind \in {Added, Removed}
        /\ nodes[k].record.hash = nodes[i].record.hash

\* C27 as stated: in a forest diff returns a content hash is carried by at
\* most one MovedFrom/MovedTo pair, and once a hash has been matched into a
\* move it is no key of potentially_added or potentially_removed for the rest
\* of the walk.
C27_OneMovePerHash ==
    DiffDone =>
        /\ ~TwoMovesOfOneHash(diffIO.forward.nodes)
        /\ ~KeyedAfterMatch(diffIO.forward.nodes)

(***************************************************************************)
(* The walk of diff under another order of iteration.                      *)
(***************************************************************************)
\* The orders in which the names of a tree may be iterated.
NameOrders ==
    {order \in [1..Len(NameSeq) -> Names] :
        \A i \in 1..Len(NameSeq), j \in 1..Len(NameSeq) : i # j => order[i] # order[j]}

\* One iteration of "while stack" with the names iterated in the given order
\* and the level taken from the front of the stack (oldest) or from its end.
DiffLevelOrdered(st, order, oldest) ==
    LET top == IF oldest THEN st.stack[1] ELSE st.stack[Len(st.stack)]
        records1 == top[1]
        records2 == top[2]
        parent_diff == top[3]
        popped == [st EXCEPT !.stack = IF oldest THEN Tail(@) ELSE SubSeq(@, 1, Len(@) - 1),
                             !.levels = @ + 1]
        afterA == DiffLoopA(popped, records1, records2, parent_diff,
                            SelectSeq(order, LAMBDA n : n \in DOMAIN records1))
    IN DiffLoopB(afterA, records1, records2, parent_diff,
                 SelectSeq(order, LAMBDA n : n \in DOMAIN records2))

RECURSIVE DiffWalkOrdered(_, _, _)
DiffWalkOrdered(st, order, oldest) ==
    IF st.stack = <<>> THEN st
    ELSE DiffWalkOrdered(DiffLevelOrdered(st, order, oldest), order, oldest)

DiffRunOrdered(tree1, tree2, order, oldest) ==
    IF TreeHash(tree1) = TreeHash(tree2)
    THEN [DiffStart(tree1, tree2) EXCEPT !.stack = <<>>]
    ELSE DiffWalkOrdered(DiffStart(tree1, tree2), order, oldest)

\* The containment of a forest: the paths of each reachable node and of each
\* of its children.
Containment(forest) ==
    UNION {{<<relpath_for(forest, p), relpath_for(forest, forest[p].children[i])>> :
               i \in 1..Len(forest[p].children)} : p \in Reachable(forest)}

Shape(forest) == <<Entries(forest), Containment(forest)>>

\* C28 as stated: for fixed trees the forest diff returns has the same pairs
\* of path and kind, the same move pairings and the same containment for
\* every order in which the names of a tree are iterated and for either end
\* of the stack the pending levels are taken from.
C28_OrderIndependent ==
    DiffDone =>
        \A order \in NameOrders, oldest \in BOOLEAN :
            Shape(DiffRunOrdered(diffIO.tree1, diffIO.tree2, order, oldest).nodes)
                = Shape(diffIO.forward.nodes)

(***************************************************************************)
(* The nodes below an Added or Removed directory.                          *)
(***************************************************************************)
\* The nodes met below a node, walking the children lists.
Below(forest, node) == FlattenLoop(forest, forest[node].children, <<>>)

\* How many of the nodes below a node stand for a record at a path, with one
\* of the kinds.
NodesFor(forest, below, path, record, kinds) ==
    Cardinality({i \in 1..Len(below) :
                    /\ relpath_for(forest, below[i]) = path
                    /\ forest[below[i]].record = record
                    /\ forest[below[i]].kind \in kinds})

\* Below a node of a TREE record there is one node for each record of the
\* subtree, of one of the kinds, and no other node.
SubtreeCovered(forest, node, kinds) ==
    LET below == Below(forest, node)
        records == PathsOf(LoadTree(forest[node].record))
    IN /\ \A pr \in records :
             NodesFor(forest, below, relpath_for(forest, node) \o pr[1], pr[2], kinds) = 1
       /\ Len(below) = Cardinality(records)

\* C29 as stated: every Added TREE node of a forest diff returns has below it
\* one node for each record of the added subtree at every depth, Added or
\* MovedFrom, and every Removed TREE node one node for each record of the
\* removed subtree, Removed or MovedTo: no record of the subtree is missing.
C29_SubtreesMaterialized ==
    DiffDone =>
        \A n \in Reachable(diffIO.forward.nodes) :
            LET node == diffIO.forward.nodes[n]
            IN /\ node.kind = Added /\ node.record.type = TREE =>
                     SubtreeCovered(diffIO.forward.nodes, n, {Added, MovedFrom})
               /\ node.kind = Removed /\ node.record.type = TREE =>
                     SubtreeCovered(diffIO.forward.nodes, n, {Removed, MovedTo})

(***************************************************************************)
(* The names two trees both hold with different records.                   *)
(***************************************************************************)
\* The names at which two trees differ: held by one only, or by both with
\* different hashes.
DifferingNames(t1, t2) ==
    {n \in DOMAIN t1 \cup DOMAIN t2 :
        n \notin DOMAIN t1 \/ n \notin DOMAIN t2 \/ t1[n].hash # t2[n].hash}

\* The paths the walk compares record against record, each with the two
\* records: the names both trees hold with different hashes, and the same
\* below every such name that is a TREE in both.
RECURSIVE Compared(_, _)
Compared(t1, t2) ==
    UNION {{<< <<n>>, t1[n], t2[n] >>}
             \cup (IF t1[n].type = TREE /\ t2[n].type = TREE
                   THEN {<< <<n>> \o c[1], c[2], c[3] >> :
                            c \in Compared(LoadTree(t1[n]), LoadTree(t2[n]))}
                   ELSE {})
           : n \in {m \in DOMAIN t1 \cap DOMAIN t2 : t1[m].hash # t2[m].hash}}

\* The reachable nodes at a path, each as often as the walk from the roots
\* meets it.
NodesAt(forest, path) ==
    SelectSeq(Flatten(forest), LAMBDA n : relpath_for(forest, n) = path)

\* The names of the records of the children of a node, in list order.
ChildNames(forest, node) ==
    [i \in 1..Len(forest[node].children) |-> forest[forest[node].children[i]].record.name]

\* The node of a name whose type differs in the two trees.
TypeSwapNode(forest, c) ==
    LET at == NodesAt(forest, c[1])
    IN /\ Len(at) = 1
       /\ forest[at[1]].kind = Modified
       /\ forest[at[1]].record = c[2]
       /\ forest[at[1]].children = <<>>
       /\ \A n \in Reachable(forest) :
             ~(IsPrefix(c[1], relpath_for(forest, n)) /\ relpath_for(forest, n) # c[1])

\* The node of a name that is a TREE in both trees.
ModifiedTreeNode(forest, c) ==
    LET at == NodesAt(forest, c[1])
        names == DifferingNames(LoadTree(c[2]), LoadTree(c[3]))
    IN /\ Len(at) = 1
       /\ forest[at[1]].kind = Modified
       /\ forest[at[1]].record = c[2]
       /\ forest[at[1]].children # <<>>
       /\ Len(forest[at[1]].children) = Cardinality(names)
       /\ {ChildNames(forest, at[1])[i] : i \in 1..Len(forest[at[1]].children)} = names

\* C30 as stated: for a name both trees hold with different types diff emits
\* one Modified node without children and no node below it; for a name that
\* is a TREE with different hashes in both it emits one Modified node whose
\* children are the nodes of the names at which the two subtrees differ, at
\* least one.
C30_ModifiedNodes ==
    DiffDone =>
        \A c \in Compared(diffIO.tree1, diffIO.tree2) :
            /\ c[2].type # c[3].type => TypeSwapNode(diffIO.forward.nodes, c)
            /\ c[2].type = TREE /\ c[3].type = TREE => ModifiedTreeNode(diffIO.forward.nodes, c)

\* The ref the target string of a checkout stands for by the order of
\* precedence: a hash, a file under refs/, a branch, a tag, or nothing.
Precedence(target) ==
    IF target[1] = "hash" THEN HashRef(target[2])
    ELSE IF target[1] = "name" /\ target[2] \in HashNames THEN HashRef(HashSpelled(target[2]))
    ELSE IF target[1] = "refpath"
    THEN IF RefFileExists(target[2], target[3]) THEN SymRef(target[2], target[3]) ELSE None
    ELSE IF target[2] \in DOMAIN heads THEN SymRef(HEADS_DIR, target[2])
    ELSE IF target[2] \in DOMAIN tags THEN SymRef(TAGS_DIR, target[2])
    ELSE None

CheckoutCalledClean == Called("checkout") /\ status.error = "" /\ ~Dirty

BranchCallsRefused ==
    LET branch == result'.target[1]
    IN /\ Called("delete_branch") =>
             /\ (branch \notin branches \/ branches = {branch}) =>
                   /\ result'.outcome = "RepositoryError"
                   /\ heads' = heads
             /\ result'.outcome = "ok" =>
                   /\ DOMAIN heads' = branches \ {branch}
                   /\ \A b \in DOMAIN heads' : heads'[b] = heads[b]
       /\ Called("add_branch") =>
             /\ branch \in branches =>
                   /\ result'.outcome = "RepositoryError"
                   /\ heads' = heads
             /\ branch \notin branches =>
                   /\ result'.outcome = "ok"
                   /\ DOMAIN heads' = branches \cup {branch}
                   /\ \A b \in branches : heads'[b] = heads[b]

\* C32: after init and any sequence of add_branch and delete_branch at least
\* one branch exists: delete_branch on the only remaining branch raises
\* RepositoryError and leaves it in place, delete_branch on a missing branch
\* raises RepositoryError, and add_branch on an existing name raises
\* RepositoryError without changing that branch's ref.
C32_OneBranchRemains ==
    [](branches # {}) /\ [][BranchCallsRefused]_vars

C32_Witness ==
    /\ pc = "done"
    /\ result.op = "delete_branch"
    /\ result.outcome = "RepositoryError"
    /\ branches = {result.target[1]}
    /\ result.target[1] # DEFAULT_BRANCH
    /\ IsHashRef(heads[result.target[1]])

\* The arguments create_tag refuses, whatever the tags that exist.
RefusedTagArgs(args) ==
    \/ args[1] = ""
    \/ args[2] = MalformedHash
    \/ args[3] = ""
    \/ args[4] = ""
    \/ args[2] \notin objects
    \/ args[2][1] # "commit"

RECURSIVE TreeOfDir(_)
TreeOfDir(fs) ==
    [n \in DOMAIN fs \ {REPO_DIR} |->
        IF fs[n].kind = "dir" THEN TreeRecord(TREE, TreeHash(TreeOfDir(fs[n].data)), n)
        ELSE TreeRecord(BLOB, BlobHash(fs[n].data), n)]

\* The directories of a directory, itself included, that are neither the
\* metadata directory nor below it.
RECURSIVE DirPaths(_)
DirPaths(fs) ==
    {<<>>} \cup UNION {{<<n>> \o p : p \in DirPaths(fs[n].data)} :
                          n \in {m \in DOMAIN fs \ {REPO_DIR} : fs[m].kind = "dir"}}

\* Every directory of a sequence comes after the directories below it.
ChildrenFirst(paths) ==
    \A i \in 1..Len(paths), j \in 1..Len(paths) :
        (paths[i] # paths[j] /\ IsPrefix(paths[i], paths[j])) => j < i

\* The hash every run of save_dir gives for a directory is the one hash.
OneHash(fs, hash) ==
    \A order \in IterOrders :
        LET run == save_dir_run(fs, order)
        IN run.error = "" /\ run.hashes[<<>>] = hash

\* C34: save_dir(D) terminates for every finite directory D and returns the
\* hash of the tree that holds exactly one record per entry of D except the
\* metadata directory, with every subdirectory hashed before its parent; the
\* returned hash is the same for every order in which the entries are visited.
C34_SaveDirHash ==
    [][Called("save_dir") =>
          /\ result'.outcome = "ok"
          /\ result'.value[1] = HashRef(TreeHash(TreeOfDir(workdir)))
          /\ ChildrenFirst(result'.value[2])
          /\ {result'.value[2][i] : i \in 1..Len(result'.value[2])} = DirPaths(workdir)
          /\ Len(result'.value[2]) = Cardinality(DirPaths(workdir))
          /\ OneHash(workdir, result'.value[1][2])]_vars

C34_Witness ==
    /\ pc = "done"
    /\ result.op = "save_dir"
    /\ result.outcome = "ok"
    /\ result.target[1][1] = NameSeq[2]
    /\ result.target[1][2] = REPO_DIR
    /\ Len(result.value[2]) = 3
    /\ \E n \in Names : FsIsDir(workdir, <<n, REPO_DIR>>)
    /\ TreeHash(TreeOfDir(workdir)) \in objects

\* build_fsTree and save_dir give every directory the same hash.
SameTrees(built, fs) ==
    /\ built.error = ""
    /\ built.tree_hashes = {built.dir_hashes[p] : p \in DOMAIN built.dir_hashes}
    /\ DOMAIN built.dir_hashes = DirPaths(fs)
    /\ \A order \in IterOrders :
          LET saved == save_dir_run(fs, order)
          IN /\ saved.error = ""
             /\ saved.hashes = built.dir_hashes

\* C39: for every directory D the root hash build_fsTree(D) computes equals
\* the hash save_dir(D) returns, and the trees they build have the same
\* records at every level: both skip the metadata directory by name at every
\* depth and both include empty subdirectories as TREE records.
C39_BuildEqualsSave ==
    [][Called("build_fsTree") =>
          /\ result'.outcome = "ok"
          /\ SameTrees(build_fsTree_run(workdir), workdir)
          /\ result'.value[1] = HashRef(TreeHash(TreeOfDir(workdir)))]_vars

C39_Witness ==
    /\ pc = "done"
    /\ result.op = "build_fsTree"
    /\ result.outcome = "ok"
    /\ \E n \in Names :
          /\ FsIsDir(workdir, <<n, REPO_DIR>>)
          /\ DOMAIN FsLookup(workdir, <<n>>).data = {REPO_DIR}
          /\ result.value[1][2][2][n] = TreeRecord(TREE, TreeHash(EmptyTree), n)
    /\ Len(result.value[2]) = 3

\* The levels the walk compares tree against tree: the two roots, and the two
\* subtrees of every compared name that is a TREE in both.
Levels(t1, t2) ==
    {<< <<>>, t1, t2 >>} \cup
    {<< c[1], LoadTree(c[2]), LoadTree(c[3]) >> :
        c \in {d \in Compared(t1, t2) : d[2].type = TREE /\ d[3].type = TREE}}

\* The children of the parent node of a level are one node for each name at
\* which the two trees of the level differ, and no other.
LevelRepresented(forest, level) ==
    LET at == IF level[1] = <<>> THEN <<TopId>> ELSE NodesAt(forest, level[1])
        names == DifferingNames(level[2], level[3])
    IN /\ Len(at) = 1
       /\ LET children == forest[at[1]].children
          IN /\ Len(children) = Cardinality(names)
             /\ {ChildNames(forest, at[1])[i] : i \in 1..Len(children)} = names
             /\ \A i \in 1..Len(children), j \in 1..Len(children) :
                   i # j => children[i] # children[j]

\* C35 as stated: at every directory level that diff compares, each name
\* whose record differs between the two trees is represented by exactly one
\* node in the children of that level's parent node, and names with equal
\* hash by none; collapsing a move replaces only the one matched node and
\* never drops or overwrites the node of a sibling of the same content hash.
C35_OneNodePerName ==
    DiffDone =>
        \A level \in Levels(diffIO.tree1, diffIO.tree2) :
            LevelRepresented(diffIO.forward.nodes, level)

\* A step of a call of checkout.
CheckoutStep == pc # "done" /\ result'.op = "checkout"

\* C36: checkout rewrites HEAD only after the applier has finished without
\* error: if resolving the target, computing the diff or applying it raises,
\* HEAD and every branch and tag ref keep the value they had before the call,
\* even though the working directory may be left half-applied.
C36_HeadAfterApplier ==
    [][CheckoutStep =>
          /\ heads' = heads
          /\ tags' = tags
          /\ HEAD' # HEAD =>
                /\ pc = "apply"
                /\ NextBucket(ck.moves, ck.removals, ck.writes) = "done"
                /\ oplog' = oplog
                /\ workdir' = workdir
                /\ result'.outcome = "ok"
          /\ (pc' = "done" /\ result'.outcome # "ok") => HEAD' = HEAD
          /\ pc' = "apply" => HEAD' = HEAD]_vars

C36_Witness ==
    /\ CheckoutEnded
    /\ result.outcome # "ok"
    /\ oplog # <<>>
    /\ HEAD = branch_ref(DEFAULT_BRANCH)
    /\ IsHashRef(head_commit)
    /\ build_fsTree(workdir) # TreeOfRef(head_commit)
    /\ build_fsTree(workdir) # TreeOfRef(HashRef(result.target[2]))

\* C37 as stated: after init and any sequence of add_branch, delete_branch,
\* commit_working_dir, create_tag, delete_tag and checkout calls, whenever HEAD
\* is a symbolic ref the branch it names exists under heads/; in particular
\* delete_branch never removes the branch HEAD points to.
C37_HeadBranchExists ==
    IsSymRef(HEAD) => HEAD[2] = HEADS_DIR /\ HEAD[3] \in branches

\* The hashes of the TREE records of a tree, at every depth.
TreeHashesOf(t) == {h \in HashesOf(t) : h[1] = TREE}

\* Every subtree of an endpoint can be loaded during the walk: of a
\* directory from the cache, of a commit from the cache or the store.
SubtreesFound(target, tree_hashes) ==
    \A h \in TreeHashesOf(_resolve_target(target).tree) :
        IF target = WorkingDir THEN _load_tree(h, tree_hashes) = "cache"
        ELSE _load_tree(h, tree_hashes) # "error"

EndpointsFound(target1, target2, tree_hashes) ==
    /\ SubtreesFound(target1, tree_hashes)
    /\ SubtreesFound(target2, tree_hashes)

\* C38: diff and status are read-only: for any endpoints, a live directory
\* included, they change neither the working directory, HEAD, any ref nor the
\* object store, and every subtree of a directory endpoint needed during the
\* walk is found in the cache of the call, so diffing a stored commit against
\* a directory never fails for an object that exists only on disk.
C38_DiffReadOnly ==
    [][(Called("diff") \/ Called("status")) =>
          LET target1 == result'.target[1]
              target2 == result'.target[2]
          IN /\ UNCHANGED <<workdir, HEAD, heads, tags, objects>>
             /\ (target1 # WorkingDir /\ IsHashRef(resolve_ref(target1))
                   /\ target2 = WorkingDir) =>
                   /\ result'.outcome = "ok"
                   /\ EndpointsFound(target1, target2,
                                     resolved_tree_hashes(target1)
                                         \cup resolved_tree_hashes(target2))]_vars

C38_Witness ==
    /\ pc = "done"
    /\ result.op = "status"
    /\ result.outcome = "ok"
    /\ IsHashRef(result.target[1])
    /\ Roots(diffIO.forward.nodes) # <<>>
    /\ \E n \in Names :
          /\ FsIsDir(workdir, <<n>>)
          /\ FsLookup(workdir, <<n>>).data # EmptyDir
          /\ build_fsTree(workdir)[n].hash \notin objects

\* Repository._apply_diffs run to its end on a directory: the three loops
\* one after the other, stopped by the first error.
RECURSIVE FacadeLoop(_, _, _, _, _)
FacadeNext(step, bucket, moves, removals, writes, target_tree) ==
    IF ~step.ok THEN [fs |-> step.fs, error |-> step.error]
    ELSE FacadeLoop(step.fs,
                    IF bucket = "move" THEN Tail(moves) ELSE moves,
                    IF bucket = "remove" THEN Tail(removals) ELSE removals,
                    IF bucket = "write" THEN Tail(writes) ELSE writes,
                    target_tree)

FacadeStep(fs, bucket, moves, removals, writes, target_tree) ==
    IF bucket = "done" THEN [fs |-> fs, error |-> ""]
    ELSE FacadeNext(IF bucket = "move" THEN DoMove(fs, Head(moves))
                    ELSE IF bucket = "remove" THEN DoRemoval(fs, Head(removals))
                    ELSE DoWrite(fs, Head(writes), target_tree),
                    bucket, moves, removals, writes, target_tree)

FacadeLoop(fs, moves, removals, writes, target_tree) ==
    FacadeStep(fs, NextBucket(moves, removals, writes), moves, removals, writes, target_tree)

FacadeRun(forest, fs, target_tree) ==
    FacadeLoop(fs, PlanMoves(forest), PlanRemovals(forest), PlanWrites(forest), target_tree)

\* The two appliers end alike: both with an error, or both without and with
\* the same working directory.
EndAlike(facade, outcome, fs_after) ==
    /\ (facade.error = "") <=> (outcome = "ok")
    /\ facade.error = "" => facade.fs = fs_after

\* C40: checkout.apply_diffs and Repository._apply_diffs are
\* equivalent on every forest diff can return for a clean working directory:
\* either both fail or both succeed with identical resulting working
\* directories.
C40_AppliersEquivalent ==
    [][\A h \in StoredCommits :
          (Called("apply_diffs") /\ result'.target = HashTarget(h)
              /\ status.error = "" /\ ~Dirty) =>
              EndAlike(FacadeRun(diff(head_commit, HashRef(h)).run.nodes, workdir,
                                 _resolve_target(HashRef(h)).tree),
                       result'.outcome, workdir')]_vars

(***************************************************************************)
(* The two appliers on a deeper target: a repository of two commits, the   *)
(* first of a tree of up to MaxNodes + 1 records, the second checked out,  *)
(* where going back to the first takes a move at least.                    *)
(***************************************************************************)
DeepTrees == TreesUpTo(Names, 1..RepoNumBlobs, MaxNodes + 1)
ShallowTrees == TreesUpTo(Names, 1..RepoNumBlobs, MaxNodes - 1)

InitAppliers ==
    \E A \in DeepTrees, B \in ShallowTrees :
        LET c1 == CommitOf(A, NoHash)
            c2 == CommitOf(B, c1)
        IN /\ MoveCount(Diff(B, A)) >= 1
           /\ workdir = Materialize(B)
           /\ HEAD = branch_ref(DEFAULT_BRANCH)
           /\ heads = [b \in {DEFAULT_BRANCH} |-> HashRef(c2)]
           /\ tags = EmptyTree
           /\ objects = SavedObjects(Materialize(A)) \cup SavedObjects(Materialize(B))
                            \cup {c1, c2}
           /\ RepoIdle

SpecAppliers == InitAppliers /\ [][NextCheckout]_vars

====
